---- MODULE Spec2Model ----
(***************************************************************************)
(* Fish Goes Fish Go Fish Fishing: the ocean's spring window and splashes, *)
(* the boid flock and the camera, modelled from src/src/main.py.           *)
(*                                                                         *)
(* Python floats are modelled in fixed point: a float f is the integer     *)
(* f * FP.  Grid keys, sizes and pixel positions are plain integers.       *)
(***************************************************************************)
EXTENDS Integers, Sequences, FiniteSets, TLC

VARIABLES
    springs,      \* Ocean.springs: key -> [extension, velocity] (fixed point)
    playerX,      \* Player.rect.centerx as read by the ocean
    screenW,      \* Manager.screen_size.x
    oceanErr,     \* "none", or the exception that ended the program
    lastOp,       \* the ocean operation that ran last, with its arguments
    pre,          \* Ocean.springs before that operation
    nSplash,      \* number of splashes so far
    boids,        \* the FishBoid sprites: id -> rect, velocity and step record
    twin,         \* a second run of the flock, other species' boids differing
    playerPos,    \* Player.rect.center as read by the boids
    playerMode,   \* how the player moves relative to the flock
    frame,        \* number of BoidManager.update calls so far
    camPos,       \* Camera.position, in units of 1 / CamUnit
    camTarget,    \* Camera.target.rect.center
    camScreen,    \* Manager.screen_size
    camSteps,     \* number of Camera.update calls so far
    camLast,      \* the camera operation that ran last, with what it read
    conv,         \* the last coordinate conversion: point, image, image of the image
    dropped,      \* keys removed from Ocean.springs while their spring was not at rest
    lone,         \* one WaterSpring updated on its own: extension and velocity
    loneHist,     \* its start, its two previous extensions, its peaks, its update count
    updateGroup,  \* Manager.groups["update"], in insertion order
    trace,        \* the calls the last frame made, in order
    playerY,      \* Player.rect.centery
    inWater,      \* Player.in_water
    ticks,        \* number of FishLevel.update calls so far
    registry,     \* Ocean.springs as key -> sprite, with the WaterSprings of the update group
    level,        \* FishLevel: screen_override, finished, the timer and the clock
    player        \* Player: rectangle centre, velocity, time_since_in_air, in_water

oceanVars == <<springs, playerX, screenW, oceanErr, lastOp, pre, nSplash, dropped>>

flockVars == <<boids, twin, playerPos, playerMode, frame>>

cameraVars == <<camPos, camTarget, camScreen, camSteps, camLast, conv>>

springVars == <<lone, loneHist>>

levelVars == <<updateGroup, trace, playerY, inWater, ticks>>

extraVars == <<registry, level, player>>

vars == <<springs, playerX, screenW, oceanErr, lastOp, pre, nSplash, dropped,
          boids, twin, playerPos, playerMode, frame,
          camPos, camTarget, camScreen, camSteps, camLast, conv,
          lone, loneHist, updateGroup, trace, playerY, inWater, ticks,
          registry, level, player>>

----------------------------------------------------------------------------
(* Numbers *)

\* one unit of a Python float in the fixed-point representation
FP == 1200

Abs(n) == IF n < 0 THEN -n ELSE n

\* lerp(start, end, a) = (1 - a) * start + a * end, all three in fixed point
lerp(start, end, a) == ((FP - a) * start + a * end) \div FP

----------------------------------------------------------------------------
(* Ocean *)

wave_interval == 8

\* WaterSpring.__init__: extension 0, velocity 0
NewSpring == [extension |-> 0, velocity |-> 0]

add_springResetAll(s, position) ==
    [k \in (DOMAIN s) \cup {position} |-> NewSpring]

\* Ocean.add_spring: self.springs[position] = WaterSpring(...)
add_spring(s, position) ==
    [k \in (DOMAIN s) \cup {position} |-> IF k = position THEN NewSpring ELSE s[k]]

\* Ocean.remove_spring, for a live position: del self.springs[position]
remove_spring(s, position) ==
    [k \in (DOMAIN s) \ {position} |-> s[k]]

SetMin(S) == CHOOSE m \in S : \A n \in S : m <= n
SetMax(S) == CHOOSE m \in S : \A n \in S : m >= n

\* while left_most_point > centerx - screen_size.x: add a spring to the left
RECURSIVE AddLeftLoop(_, _, _)
AddLeftLoop(s, left, lim) ==
    IF left > lim
    THEN AddLeftLoop(add_spring(s, left - wave_interval), left - wave_interval, lim)
    ELSE [springs |-> s, point |-> left, err |-> "none"]

RECURSIVE RemoveLeftLoopLE(_, _, _)
RemoveLeftLoopLE(s, left, lim) ==
    IF left <= lim
    THEN IF left \notin DOMAIN s
         THEN [springs |-> s, point |-> left, err |-> "KeyError"]
         ELSE RemoveLeftLoopLE(remove_spring(s, left), left + wave_interval, lim)
    ELSE [springs |-> s, point |-> left, err |-> "none"]

\* while left_most_point < centerx - screen_size.x: remove the leftmost spring;
\* remove_spring raises KeyError when the position holds no spring
RECURSIVE RemoveLeftLoop(_, _, _)
RemoveLeftLoop(s, left, lim) ==
    IF left < lim
    THEN IF left \notin DOMAIN s
         THEN [springs |-> s, point |-> left, err |-> "KeyError"]
         ELSE RemoveLeftLoop(remove_spring(s, left), left + wave_interval, lim)
    ELSE [springs |-> s, point |-> left, err |-> "none"]

\* while right_most_point < centerx + screen_size.x: add a spring to the right
RECURSIVE AddRightLoop(_, _, _)
AddRightLoop(s, right, lim) ==
    IF right < lim
    THEN AddRightLoop(add_spring(s, right + wave_interval), right + wave_interval, lim)
    ELSE [springs |-> s, point |-> right, err |-> "none"]

RemoveRightLoopNone(s, right, lim) ==
    [springs |-> s, point |-> right, err |-> "none"]

\* while right_most_point > centerx + screen_size.x: remove the rightmost spring
RECURSIVE RemoveRightLoop(_, _, _)
RemoveRightLoop(s, right, lim) ==
    IF right > lim
    THEN IF right \notin DOMAIN s
         THEN [springs |-> s, point |-> right, err |-> "KeyError"]
         ELSE RemoveRightLoop(remove_spring(s, right), right - wave_interval, lim)
    ELSE [springs |-> s, point |-> right, err |-> "none"]

\* Ocean.add_more_springs: both extremes are read before any loop runs
add_more_springs(s, centerx, width) ==
    IF DOMAIN s = {}
    THEN [springs |-> s, err |-> "ValueError"]
    ELSE LET left_most_point  == SetMin(DOMAIN s)
             right_most_point == SetMax(DOMAIN s)
             l1 == AddLeftLoop(s, left_most_point, centerx - width)
             l2 == RemoveLeftLoop(l1.springs, l1.point, centerx - width)
             r1 == AddRightLoop(l2.springs, right_most_point, centerx + width)
             r2 == RemoveRightLoop(r1.springs, r1.point, centerx + width)
         IN  IF l2.err # "none"
             THEN [springs |-> l2.springs, err |-> l2.err]
             ELSE [springs |-> r2.springs, err |-> r2.err]

OriginalIndexNearest(position) ==
    ((position + wave_interval \div 2) \div wave_interval) * wave_interval

\* original_index = int(position // wave_interval * wave_interval)
OriginalIndex(position) == (position \div wave_interval) * wave_interval

\* range(original_index - size * wave_interval, original_index + size * wave_interval, wave_interval)
SplashRange(position, size) ==
    { OriginalIndex(position) + d * wave_interval : d \in (-size)..(size - 1) }

SplashVelocityWide(position, speed, size, i) ==
    lerp(speed, 0, (Abs(OriginalIndex(position) - i) * FP) \div ((size + 1) * wave_interval))

\* the velocity one spring of the range receives
SplashVelocity(position, speed, size, i) ==
    lerp(speed, 0, (Abs(OriginalIndex(position) - i) * FP) \div (size * wave_interval))

splashCreating(s, position, speed, size) ==
    [i \in (DOMAIN s) \cup SplashRange(position, size) |->
        IF i \in SplashRange(position, size)
        THEN [extension |-> IF i \in DOMAIN s THEN s[i].extension ELSE 0,
              velocity  |-> (IF i \in DOMAIN s THEN s[i].velocity ELSE 0)
                            + SplashVelocity(position, speed, size, i)]
        ELSE s[i]]

splashFlat(s, position, speed, size) ==
    [i \in DOMAIN s |->
        IF i \in SplashRange(position, size)
        THEN [s[i] EXCEPT !.velocity = @ + speed]
        ELSE s[i]]

\* Ocean.splash: springs.get(i) skips the indices that hold no spring
splash(s, position, speed, size) ==
    [i \in DOMAIN s |->
        IF i \in SplashRange(position, size)
        THEN [s[i] EXCEPT !.velocity = @ + SplashVelocity(position, speed, size, i)]
        ELSE s[i]]

\* the lone spring, at rest while another part is checked
SpringIdle ==
    /\ lone = [extension |-> 0, velocity |-> 0]
    /\ loneHist = [start |-> 0, prev |-> 0, prev2 |-> 0, peaks |-> << >>, n |-> 0]

\* the sprite registry, at rest while another part is checked
RegistryIdle ==
    registry = [springs |-> << >>, group |-> << >>, next |-> 1, phase |-> "idle",
                left |-> 0, right |-> 0, err |-> "none", calls |-> 0]

\* the level's overlay and timer, at rest while another part is checked
GameIdle ==
    level = [override |-> "none", finished |-> FALSE, time |-> 0, last_time |-> 0,
             now |-> 0, wins |-> 0, restarts |-> 0, running |-> TRUE, ended |-> FALSE,
             last |-> "init"]

\* the player's own motion, at rest while another part is checked
PlayerIdle ==
    player = [x |-> 0, y |-> 0, vx |-> 0, vy |-> 0, time_since_in_air |-> 0,
              in_water |-> FALSE, splash |-> "none", thrust |-> FALSE, pressed |-> FALSE,
              was |-> 0, y0 |-> 0, vx0 |-> 0, vy0 |-> 0, since |-> 0, thrusts |-> 0, n |-> 0]

ExtraIdle == RegistryIdle /\ GameIdle /\ PlayerIdle

\* the update group and the player's dive, at rest while another part is checked
LevelIdle ==
    /\ updateGroup = << >>
    /\ trace = << >>
    /\ playerY = 0
    /\ inWater = FALSE
    /\ ticks = 0

\* the variables of the flock, at rest while the ocean is checked
FlockIdle ==
    /\ boids = << >>
    /\ twin = << >>
    /\ playerPos = <<0, 0>>
    /\ playerMode = "away"
    /\ frame = 0

\* the variables of the camera, at rest while another part is checked
CameraIdle ==
    /\ camPos = <<0, 0>>
    /\ camTarget = <<0, 0>>
    /\ camScreen = <<0, 0>>
    /\ camSteps = 0
    /\ camLast = [op |-> "init", before |-> <<0, 0>>, target |-> <<0, 0>>]
    /\ conv = [op |-> "none", p |-> <<0, 0>>, image |-> <<0, 0>>, back |-> <<0, 0>>]

----------------------------------------------------------------------------
(* Inputs and bounds of the ocean specification *)

\* player centre x values: on and off the grid, near and far
PlayerXs == {-50, 0, 3, 13, 60}

\* window widths (Manager.on_resize may change the width)
ScreenWidths == {21, 32}

SplashPositions == {-5, 0, 7}
SplashSpeeds == {10, -6}
SplashSizes == {1, 3, 4}

MaxSplash == 1

NoOp == [op |-> "init", position |-> 0, speed |-> 0, size |-> 0]

\* Ocean.__init__ (one spring at 0), or the older Ocean.add_springs
\* (range(0, 2 * SCREEN_SIZE.x, wave_interval))
InitSprings(w, old) ==
    IF old
    THEN [k \in { i * wave_interval : i \in 0..((2 * w - 1) \div wave_interval) } |-> NewSpring]
    ELSE add_spring(<< >>, 0)

InitOcean ==
    /\ screenW \in ScreenWidths
    /\ playerX \in {0, 3}
    /\ \E old \in BOOLEAN : springs = InitSprings(screenW, old)
    /\ oceanErr = "none"
    /\ lastOp = NoOp
    /\ pre = springs
    /\ nSplash = 0
    /\ dropped = {}
    /\ FlockIdle
    /\ CameraIdle
    /\ SpringIdle
    /\ ExtraIdle
    /\ LevelIdle

\* Player.update moves the player's rectangle
MovePlayer ==
    /\ oceanErr = "none"
    /\ \E x \in PlayerXs : playerX' = x
    /\ UNCHANGED <<springs, screenW, oceanErr, lastOp, pre, nSplash, dropped>>
    /\ UNCHANGED <<flockVars, cameraVars, springVars, extraVars, levelVars>>

\* Manager.on_resize
OnResize ==
    /\ oceanErr = "none"
    /\ \E w \in ScreenWidths : screenW' = w
    /\ UNCHANGED <<springs, playerX, oceanErr, lastOp, pre, nSplash, dropped>>
    /\ UNCHANGED <<flockVars, cameraVars, springVars, extraVars, levelVars>>

\* Ocean.add_more_springs, as called by Ocean.update
AddMoreSprings ==
    /\ oceanErr = "none"
    /\ LET r == add_more_springs(springs, playerX, screenW)
       IN  /\ springs' = r.springs
           /\ oceanErr' = r.err
    /\ pre' = springs
    /\ lastOp' = [op |-> "add_more_springs", position |-> playerX, speed |-> 0, size |-> screenW]
    /\ UNCHANGED <<playerX, screenW, nSplash, dropped>>
    /\ UNCHANGED <<flockVars, cameraVars, springVars, extraVars, levelVars>>

\* Ocean.splash(position, speed, size)
Splash ==
    /\ oceanErr = "none"
    /\ nSplash < MaxSplash
    /\ \E position \in SplashPositions, speed \in SplashSpeeds, size \in SplashSizes :
          /\ springs' = splash(springs, position, speed * FP, size)
          /\ lastOp' = [op |-> "splash", position |-> position, speed |-> speed * FP, size |-> size]
    /\ pre' = springs
    /\ nSplash' = nSplash + 1
    /\ UNCHANGED <<playerX, screenW, oceanErr, dropped>>
    /\ UNCHANGED <<flockVars, cameraVars, springVars, extraVars, levelVars>>

NextOcean == MovePlayer \/ OnResize \/ AddMoreSprings \/ Splash

SpecOcean == InitOcean /\ [][NextOcean]_vars

\* the ocean after a first frame and one splash: the window around the
\* player, some of its springs moving
InitRefill ==
    /\ screenW \in ScreenWidths
    /\ playerX \in {0, 3}
    /\ \E old \in BOOLEAN, position \in SplashPositions, speed \in SplashSpeeds,
          size \in SplashSizes :
          springs = splash(add_more_springs(InitSprings(screenW, old), playerX, screenW).springs,
                           position, speed * FP, size)
    /\ oceanErr = "none"
    /\ lastOp = NoOp
    /\ pre = springs
    /\ nSplash = 0
    /\ dropped = {}
    /\ FlockIdle
    /\ CameraIdle
    /\ SpringIdle
    /\ ExtraIdle
    /\ LevelIdle

\* Ocean.add_more_springs, as called by Ocean.update, with the keys it
\* removed from under a moving spring remembered
AddMoreSpringsRefill ==
    /\ oceanErr = "none"
    /\ LET r == add_more_springs(springs, playerX, screenW)
       IN  /\ springs' = r.springs
           /\ oceanErr' = r.err
    /\ pre' = springs
    /\ dropped' = dropped \cup { k \in (DOMAIN springs) \ (DOMAIN springs') :
                                    springs[k] # NewSpring }
    /\ lastOp' = [op |-> "add_more_springs", position |-> playerX, speed |-> 0, size |-> screenW]
    /\ UNCHANGED <<playerX, screenW, nSplash>>
    /\ UNCHANGED <<flockVars, cameraVars, springVars, extraVars, levelVars>>

NextRefill == MovePlayer \/ OnResize \/ AddMoreSpringsRefill

\* the window moving over springs that move: no further splash
SpecRefill == InitRefill /\ [][NextRefill]_vars

----------------------------------------------------------------------------
(* Claims about the ocean, checked under SpecOcean *)

Keys == DOMAIN springs

\* the integer multiples of wave_interval in [lo, hi]
Multiples(lo, hi) == { k \in lo..hi : k % wave_interval = 0 }

AddReturned == lastOp.op = "add_more_springs" /\ oceanErr = "none"

\* C1: whenever add_more_springs returns, the live keys are exactly the
\* multiples of wave_interval in [x - W, x + W], x the player's centre x and
\* W the screen width the call read.
C1_WindowCoverage ==
    AddReturned =>
        Keys = Multiples(lastOp.position - lastOp.size, lastOp.position + lastOp.size)

\* a call that added springs on one side and removed springs on the other,
\* for a player x off the grid
C1_Witness ==
    /\ AddReturned
    /\ lastOp.position % wave_interval # 0
    /\ (DOMAIN pre) \ Keys # {}
    /\ Keys \ (DOMAIN pre) # {}
    /\ Keys \cap (DOMAIN pre) # {}

\* the multiples of wave_interval nearest to x (two of them on a tie)
NearestMultiples(x) ==
    LET lo == x - (x % wave_interval)
        cands == {lo, lo + wave_interval}
    IN  { c \in cands : \A o \in cands : Abs(c - x) <= Abs(o - x) }

\* C2 as stated: after add_more_springs the live keys span exactly
\* [c - R, c + R], c the player's x rounded to the nearest multiple of
\* wave_interval, for every player x.
C2_Original ==
    AddReturned =>
        \E c \in NearestMultiples(lastOp.position) :
            Keys = Multiples(c - lastOp.size, c + lastOp.size)

\* the smallest multiple of wave_interval that is >= n, the largest that is <= n
CeilMultiple(n) == CHOOSE k \in n..(n + wave_interval - 1) : k % wave_interval = 0
FloorMultiple(n) == CHOOSE k \in (n - wave_interval + 1)..n : k % wave_interval = 0

\* C2 amended: after add_more_springs returns the live keys are a gap-free
\* arithmetic sequence of step wave_interval from the first multiple at or
\* above x - R to the last multiple at or below x + R; the span is
\* [x - R, x + R], symmetric about x, only when x and R are multiples of
\* wave_interval.
C2_WindowSpan ==
    AddReturned =>
        /\ Keys # {}
        /\ SetMin(Keys) = CeilMultiple(lastOp.position - lastOp.size)
        /\ SetMax(Keys) = FloorMultiple(lastOp.position + lastOp.size)
        /\ \A k \in Keys : k = SetMax(Keys) \/ k + wave_interval \in Keys
        /\ (lastOp.position % wave_interval = 0 /\ lastOp.size % wave_interval = 0)
              => /\ SetMin(Keys) = lastOp.position - lastOp.size
                 /\ SetMax(Keys) = lastOp.position + lastOp.size

\* a returned call for a player x off the grid whose window is not the one
\* centred on the rounded x
C2_Witness ==
    /\ AddReturned
    /\ lastOp.position % wave_interval # 0
    /\ Keys # DOMAIN pre
    /\ SetMin(Keys) + SetMax(Keys) \notin { 2 * c : c \in NearestMultiples(lastOp.position) }

Splashed == lastOp.op = "splash"

\* grid steps between key k and the index the last splash targeted
StepsFromTarget(k) == Abs(k - OriginalIndex(lastOp.position)) \div wave_interval

\* C3: splash(position, speed, size) adds speed * (1 - |d| / size) to the
\* velocity of each live spring d grid steps from the targeted index, for
\* every |d| <= size on both sides, changes no extension and changes no
\* velocity further away.
C3_SplashKernel ==
    Splashed =>
        /\ DOMAIN springs = DOMAIN pre
        /\ \A k \in DOMAIN pre :
              /\ springs[k].extension = pre[k].extension
              /\ springs[k].velocity = pre[k].velocity +
                    (IF StepsFromTarget(k) <= lastOp.size
                     THEN (lastOp.speed * (lastOp.size - StepsFromTarget(k))) \div lastOp.size
                     ELSE 0)

\* a splash of size 4 whose nine indices (d = -4 .. 4) are all live and whose
\* springs one step left and right of the target both gained 3/4 of the speed
C3_Witness ==
    /\ Splashed
    /\ lastOp.size = 4
    /\ \A d \in -4..4 : OriginalIndex(lastOp.position) + d * wave_interval \in Keys
    /\ \A d \in {-1, 1} :
          LET k == OriginalIndex(lastOp.position) + d * wave_interval
          IN  4 * (springs[k].velocity - pre[k].velocity) = 3 * lastOp.speed

InsideWindow(x) == Keys # {} /\ SetMin(Keys) <= x /\ x <= SetMax(Keys)

\* the live keys nearest to x
NearestKeys(x) == { k \in Keys : \A j \in Keys : Abs(k - x) <= Abs(j - x) }

\* C4 as stated: for x0 inside the window, splash(x0, v, r) increases by
\* exactly v the velocity of the live spring whose key is nearest to x0.
C4_Original ==
    (Splashed /\ InsideWindow(lastOp.position)) =>
        \A k \in NearestKeys(lastOp.position) :
            Cardinality(NearestKeys(lastOp.position)) = 1
                => springs[k].velocity = pre[k].velocity + lastOp.speed

\* C4 amended: splash(x0, v, r) increases by exactly v the velocity of the
\* spring at the grid point at or below x0 (the largest multiple of
\* wave_interval <= x0) when that spring is live; the spring nearest x0
\* receives exactly v only when it is that grid point.
C4_SplashTarget ==
    Splashed =>
        LET k == FloorMultiple(lastOp.position)
        IN  k \in DOMAIN pre =>
               /\ k \in Keys
               /\ springs[k].velocity = pre[k].velocity + lastOp.speed

\* a splash at a position whose nearest key is above its grid point: the
\* grid point below gained v, the nearest key did not
C4_Witness ==
    /\ Splashed
    /\ InsideWindow(lastOp.position)
    /\ FloorMultiple(lastOp.position) \in Keys
    /\ NearestKeys(lastOp.position) = {FloorMultiple(lastOp.position) + wave_interval}
    /\ springs[FloorMultiple(lastOp.position)].velocity
          = pre[FloorMultiple(lastOp.position)].velocity + lastOp.speed
    /\ springs[FloorMultiple(lastOp.position) + wave_interval].velocity
          # pre[FloorMultiple(lastOp.position) + wave_interval].velocity + lastOp.speed

\* the grid indices within size steps of the targeted index
RadiusIndices ==
    { OriginalIndex(lastOp.position) + d * wave_interval : d \in (-lastOp.size)..lastOp.size }

\* C5: a splash whose affected indices are partly or wholly outside the live
\* window raises nothing, creates no spring and leaves every spring that is
\* not within the radius unchanged.
C5_SplashOutside ==
    (Splashed /\ ~(RadiusIndices \subseteq DOMAIN pre)) =>
        /\ oceanErr = "none"
        /\ DOMAIN springs = DOMAIN pre
        /\ \A k \in DOMAIN pre : k \notin RadiusIndices => springs[k] = pre[k]

\* a splash partly outside the window: some affected indices hold no spring,
\* a live one gained velocity, and a live spring beyond the radius exists
C5_Witness ==
    /\ Splashed
    /\ RadiusIndices \ (DOMAIN pre) # {}
    /\ \E k \in RadiusIndices \cap DOMAIN pre : springs[k].velocity # pre[k].velocity
    /\ (DOMAIN pre) \ RadiusIndices # {}

\* C13 as stated: add_more_springs completes without raising for every new
\* player x, whatever the distance moved since the previous call, to the
\* right or to the left of the previous window: it never removes a key that
\* is not live and never leaves the spring set empty.
C13_Original ==
    lastOp.op = "add_more_springs" => (oceanErr = "none" /\ Keys # {})

\* C14 (checked under SpecRefill): add_more_springs changes only the key set: a spring live before and
\* after the call keeps its extension and velocity, and every key the call
\* brought in, a key that had left the window earlier included, holds a
\* spring with extension 0 and velocity 0.
C14_FrameEffect ==
    lastOp.op = "add_more_springs" =>
        \A k \in Keys :
            IF k \in DOMAIN pre THEN springs[k] = pre[k] ELSE springs[k] = NewSpring

\* a call that brought back a key which had left the window while its spring
\* was moving, and kept a spring that is still moving
C14_Witness ==
    /\ AddReturned
    /\ \E k \in (Keys \ DOMAIN pre) \cap dropped : springs[k] = NewSpring
    /\ \E k \in Keys \cap DOMAIN pre : springs[k] # NewSpring /\ springs[k] = pre[k]

\* the live springs exactly size grid steps left and right of the targeted index
EdgeKeys ==
    { OriginalIndex(lastOp.position) + side * lastOp.size * wave_interval : side \in {-1, 1} }
    \cap DOMAIN pre

\* C15: the live springs exactly size grid steps from the targeted index,
\* left and right alike, have their velocity changed by exactly 0.
C15_SplashEdge ==
    Splashed => \A k \in EdgeKeys : k \in Keys /\ springs[k].velocity = pre[k].velocity

\* splash(0, 10, size = 1) with springs at -8, 0 and 8: the spring at 0
\* gained 10, the springs at -8 and 8 gained 0
C15_Witness ==
    /\ Splashed
    /\ lastOp.position = 0 /\ lastOp.speed = 10 * FP /\ lastOp.size = 1
    /\ EdgeKeys = {-8, 8}
    /\ springs[0].velocity = pre[0].velocity + 10 * FP
    /\ springs[8].velocity = pre[8].velocity
    /\ springs[-8].velocity = pre[-8].velocity

----------------------------------------------------------------------------
(* Flock: FishBoid and BoidManager *)

LAYER_HEIGHT == 1440
WORLD_LEFT == 0
WORLD_RIGHT == LAYER_HEIGHT * 10
WORLD_BOTTOM == LAYER_HEIGHT * 5

\* the float factors, in thousandths
FISH_SIM_CENTER_FACTOR == 3
FISH_SIM_AVOID_FACTOR == 5
FISH_SIM_MATCH_FACTOR == 40
FISH_SIM_TURN_FACTOR == 900
FISH_SIM_AVOID_PLAYER_FACTOR == 50

FISH_SIM_AVOID_DIST == 35 * 35
FISH_SIM_AVOID_PLAYER_DIST == 100 * 100
FISH_SIM_VISION_DIST == 500 * 500

speed_limit == 10

PADDING == 50

\* BoidManager.bounding_rect = Rect(WORLD_LEFT + PADDING, PADDING * 4,
\*     WORLD_RIGHT - WORLD_LEFT - PADDING, WORLD_BOTTOM - PADDING * 5)
bounds ==
    [x |-> WORLD_LEFT + PADDING, y |-> PADDING * 4,
     w |-> WORLD_RIGHT - WORLD_LEFT - PADDING, h |-> WORLD_BOTTOM - PADDING * 5]

\* size of a boid's unrotated image
BoidW == 40
BoidH == 16

\* integer division truncating toward zero (float -> int conversion of a Rect)
TDiv(a, b) == IF a >= 0 THEN a \div b ELSE -((-a) \div b)

\* a fixed-point value times a factor given in thousandths
Times(a, factor) == TDiv(a * factor, 1000)

\* the smallest m in lo..hi with m * m >= n
RECURSIVE SqrtSearch(_, _, _)
SqrtSearch(n, lo, hi) ==
    IF lo >= hi THEN lo
    ELSE LET mid == (lo + hi) \div 2
         IN  IF mid * mid >= n THEN SqrtSearch(n, lo, mid) ELSE SqrtSearch(n, mid + 1, hi)

\* the length of a vector from its squared length, rounded up
Magnitude(sq) == SqrtSearch(sq, 0, 46340)

RECURSIVE SetSum(_)
SetSum(f) ==
    IF DOMAIN f = {} THEN 0
    ELSE LET e == CHOOSE e \in DOMAIN f : TRUE
         IN  f[e] + SetSum([o \in (DOMAIN f) \ {e} |-> f[o]])

\* Rect.centerx, Rect.centery, Rect.right, Rect.bottom
centerx(r) == r.x + r.w \div 2
centery(r) == r.y + r.h \div 2
right(r) == r.x + r.w
bottom(r) == r.y + r.h

\* (Vector2(a.rect.center) - b.rect.center).magnitude_squared()
DistSq(a, b) ==
    (centerx(a) - centerx(b)) * (centerx(a) - centerx(b))
    + (centery(a) - centery(b)) * (centery(a) - centery(b))

\* FishBoid.go_towards_center
go_towards_center(st, b, nb) ==
    LET n == Cardinality(nb)
        sx == SetSum([o \in nb |-> centerx(st[o])])
        sy == SetSum([o \in nb |-> centery(st[o])])
    IN  IF n = 0 THEN st
        ELSE [st EXCEPT
                ![b].vx = @ + Times(TDiv(sx * FP, n) - centerx(st[b]) * FP, FISH_SIM_CENTER_FACTOR),
                ![b].vy = @ + Times(TDiv(sy * FP, n) - centery(st[b]) * FP, FISH_SIM_CENTER_FACTOR)]

\* FishBoid.avoid_others
avoid_others(st, b, nb) ==
    LET close == { o \in nb : o # b /\ DistSq(st[o], st[b]) < FISH_SIM_AVOID_DIST }
        dx == SetSum([o \in close |-> centerx(st[b]) - centerx(st[o])])
        dy == SetSum([o \in close |-> centery(st[b]) - centery(st[o])])
    IN  [st EXCEPT ![b].vx = @ + Times(dx * FP, FISH_SIM_AVOID_FACTOR),
                   ![b].vy = @ + Times(dy * FP, FISH_SIM_AVOID_FACTOR)]

\* FishBoid.match_velocity
match_velocity(st, b, nb) ==
    LET n == Cardinality(nb)
        sx == SetSum([o \in nb |-> st[o].vx])
        sy == SetSum([o \in nb |-> st[o].vy])
    IN  IF n = 0 THEN st
        ELSE [st EXCEPT
                ![b].vx = @ + Times(TDiv(sx, n) - st[b].vx, FISH_SIM_MATCH_FACTOR),
                ![b].vy = @ + Times(TDiv(sy, n) - st[b].vy, FISH_SIM_MATCH_FACTOR)]

avoid_playerAlways(st, b, p) ==
    LET dx == p[1] - centerx(st[b])
        dy == p[2] - centery(st[b])
    IN  [st EXCEPT ![b].vx = @ + Times((-dx) * FP, FISH_SIM_AVOID_PLAYER_FACTOR),
                   ![b].vy = @ + Times((-dy) * FP, FISH_SIM_AVOID_PLAYER_FACTOR)]

\* FishBoid.avoid_player
avoid_player(st, b, p) ==
    LET dx == p[1] - centerx(st[b])
        dy == p[2] - centery(st[b])
    IN  IF dx * dx + dy * dy < FISH_SIM_AVOID_PLAYER_DIST
        THEN [st EXCEPT ![b].vx = @ + Times((-dx) * FP, FISH_SIM_AVOID_PLAYER_FACTOR),
                        ![b].vy = @ + Times((-dy) * FP, FISH_SIM_AVOID_PLAYER_FACTOR)]
        ELSE st

clampNone(r, limit) == r

clamp_magnitudeAxes(r, limit) ==
    [r EXCEPT !.vx = IF Abs(r.vx) > limit * FP THEN (IF r.vx > 0 THEN limit * FP ELSE -(limit * FP)) ELSE r.vx,
              !.vy = IF Abs(r.vy) > limit * FP THEN (IF r.vy > 0 THEN limit * FP ELSE -(limit * FP)) ELSE r.vy]

\* Vector2.clamp_magnitude_ip(limit) on the velocity of r
clamp_magnitude(r, limit) ==
    LET sq == r.vx * r.vx + r.vy * r.vy
        m == Magnitude(sq)
    IN  IF sq > (limit * FP) * (limit * FP)
        THEN [r EXCEPT !.vx = TDiv(r.vx * limit * FP, m), !.vy = TDiv(r.vy * limit * FP, m)]
        ELSE r

\* the size of the image rotozoom returns for a direction: the image lies
\* along the velocity
RotatedSize(vx, vy) ==
    IF Abs(vy) > Abs(vx) THEN [w |-> BoidH, h |-> BoidW] ELSE [w |-> BoidW, h |-> BoidH]

\* self.rect.topleft += self.velocity, then
\* self.rect = self.image.get_rect(center = self.rect.center)
Move(r) ==
    LET x1 == TDiv(r.x * FP + r.vx, FP)
        y1 == TDiv(r.y * FP + r.vy, FP)
        cx == x1 + r.w \div 2
        cy == y1 + r.h \div 2
        sz == RotatedSize(r.vx, r.vy)
    IN  [r EXCEPT !.x = cx - sz.w \div 2, !.y = cy - sz.h \div 2, !.w = sz.w, !.h = sz.h,
                  !.mvx = r.vx, !.mvy = r.vy]

NudgeOutward(r) ==
    LET t == Times(FP, FISH_SIM_TURN_FACTOR)
        nx == (IF right(r) > right(bounds) THEN t ELSE 0) - (IF r.x < bounds.x THEN t ELSE 0)
        ny == (IF bottom(r) > bottom(bounds) THEN t ELSE 0) - (IF r.y < bounds.y THEN t ELSE 0)
    IN  [r EXCEPT !.vx = @ + nx, !.vy = @ + ny, !.nx = nx, !.ny = ny, !.ux = r.x, !.uy = r.y]

\* FishBoid.keep_within_bounds, first half: the nudges toward the bounding rect
Nudge(r) ==
    LET t == Times(FP, FISH_SIM_TURN_FACTOR)
        nx == (IF r.x < bounds.x THEN t ELSE 0) - (IF right(r) > right(bounds) THEN t ELSE 0)
        ny == (IF r.y < bounds.y THEN t ELSE 0) - (IF bottom(r) > bottom(bounds) THEN t ELSE 0)
    IN  [r EXCEPT !.vx = @ + nx, !.vy = @ + ny, !.nx = nx, !.ny = ny, !.ux = r.x, !.uy = r.y]

HardClampNoRight(r) ==
    LET x1 == IF r.x < WORLD_LEFT THEN WORLD_LEFT ELSE r.x
        y2 == IF r.y + r.h > WORLD_BOTTOM THEN WORLD_BOTTOM - r.h ELSE r.y
    IN  [r EXCEPT !.x = x1, !.y = y2]

\* FishBoid.keep_within_bounds, second half: the clamp into the world
HardClamp(r) ==
    LET x1 == IF r.x < WORLD_LEFT THEN WORLD_LEFT ELSE r.x
        x2 == IF x1 + r.w > WORLD_RIGHT THEN WORLD_RIGHT - r.w ELSE x1
        y2 == IF r.y + r.h > WORLD_BOTTOM THEN WORLD_BOTTOM - r.h ELSE r.y
    IN  [r EXCEPT !.x = x2, !.y = y2]

\* FishBoid.keep_within_bounds
keep_within_bounds(r) == HardClamp(Nudge(r))

\* the velocity and the rectangle of a boid
Velocity(r) == <<r.vx, r.vy>>
RectOf(r) == [x |-> r.x, y |-> r.y, w |-> r.w, h |-> r.h]

FishBoidUpdateAlignFirst(st, b, nb, p) ==
    LET s1 == go_towards_center(st, b, nb)
        s2 == match_velocity(s1, b, nb)
        s3 == avoid_others(s2, b, nb)
        s4 == avoid_player(s3, b, p)
        rec == [s4[b] EXCEPT !.nb = nb, !.rect0 = RectOf(st[b]), !.v0 = Velocity(st[b]),
                             !.vc = Velocity(s1[b]), !.vs = Velocity(s3[b]),
                             !.va = Velocity(s2[b]), !.vp = Velocity(s4[b])]
    IN  [s4 EXCEPT ![b] = keep_within_bounds(Move(clamp_magnitude(rec, speed_limit)))]

\* FishBoid.update(boids); the record keeps the list the boid was given, its
\* rectangle and velocity before the update and its velocity after each force
FishBoidUpdate(st, b, nb, p) ==
    LET s1 == go_towards_center(st, b, nb)
        s2 == avoid_others(s1, b, nb)
        s3 == match_velocity(s2, b, nb)
        s4 == avoid_player(s3, b, p)
        rec == [s4[b] EXCEPT !.nb = nb, !.rect0 = RectOf(st[b]), !.v0 = Velocity(st[b]),
                             !.vc = Velocity(s1[b]), !.vs = Velocity(s2[b]),
                             !.va = Velocity(s3[b]), !.vp = Velocity(s4[b])]
    IN  [s4 EXCEPT ![b] = keep_within_bounds(Move(clamp_magnitude(rec, speed_limit)))]

\* BoidManager.fish_groups, each in insertion order
fish_groups == << <<1, 2>>, <<3>> >>

Range(seq) == { seq[i] : i \in DOMAIN seq }

NeighboursOthers(st, group, b) ==
    { o \in group \ {b} : DistSq(st[o], st[b]) < FISH_SIM_VISION_DIST }

NeighboursAll(st, group, b) ==
    { o \in DOMAIN st : DistSq(st[o], st[b]) < FISH_SIM_VISION_DIST }

\* [b for b in fish_suit.sprites() if distance squared < FISH_SIM_VISION_DIST]
Neighbours(st, group, b) ==
    { o \in group : DistSq(st[o], st[b]) < FISH_SIM_VISION_DIST }

\* for boid in fish_suit.sprites(): boid.update(boids)
RECURSIVE UpdateGroup(_, _, _, _)
UpdateGroup(st, group, order, p) ==
    IF order = << >> THEN st
    ELSE UpdateGroup(FishBoidUpdate(st, Head(order), Neighbours(st, group, Head(order)), p),
                     group, Tail(order), p)

\* BoidManager.update
RECURSIVE UpdateGroups(_, _, _)
UpdateGroups(st, groups, p) ==
    IF groups = << >> THEN st
    ELSE UpdateGroups(UpdateGroup(st, Range(Head(groups)), Head(groups), p), Tail(groups), p)

BoidManagerUpdate(st, p) == UpdateGroups(st, fish_groups, p)

----------------------------------------------------------------------------
(* Inputs and bounds of the flock specification *)

\* FishBoid.__init__: the rect is centred on the position, the velocity is
\* vector_from_polar(direction, speed_limit)
NewBoid(pos, dir) ==
    [x |-> pos[1] - BoidW \div 2, y |-> pos[2] - BoidH \div 2, w |-> BoidW, h |-> BoidH,
     vx |-> dir[1] * FP, vy |-> dir[2] * FP,
     mvx |-> 0, mvy |-> 0, nx |-> 0, ny |-> 0,
     ux |-> pos[1] - BoidW \div 2, uy |-> pos[2] - BoidH \div 2,
     nb |-> {},
     rect0 |-> [x |-> pos[1] - BoidW \div 2, y |-> pos[2] - BoidH \div 2, w |-> BoidW, h |-> BoidH],
     v0 |-> <<dir[1] * FP, dir[2] * FP>>, vc |-> <<dir[1] * FP, dir[2] * FP>>,
     vs |-> <<dir[1] * FP, dir[2] * FP>>, va |-> <<dir[1] * FP, dir[2] * FP>>,
     vp |-> <<dir[1] * FP, dir[2] * FP>>]

\* directions of length speed_limit
Directions == { <<10, 0>>, <<-10, 0>>, <<0, -10>>, <<6, 8>> }

\* positions inside the bounding rect: its corners and its inside
Starts1 == { <<50, 200>>, <<14400, 7150>>, <<1000, 1000>> }
Starts2 == { <<70, 220>>, <<1020, 1010>>, <<5000, 3000>> }
Starts3 == { <<60, 210>>, <<1010, 1005>> }
TwinStarts3 == { <<80, 230>>, <<3000, 3000>> }

PlayerModes == {"away", "below", "beside"}

\* the player's centre: far from every boid, or next to boid 1
PlayerSpot(mode, st) ==
    CASE mode = "below"  -> <<centerx(st[1]), centery(st[1]) + 60>>
      [] mode = "beside" -> <<centerx(st[1]) + 60, centery(st[1])>>
      [] OTHER           -> <<7000, 5000>>

\* frames in which the player may change how it moves
FreeFrames == 1

MaxFrames == 24

\* the variables of the ocean, at rest while the flock is checked
OceanIdle ==
    /\ springs = << >>
    /\ playerX = 0
    /\ screenW = 0
    /\ oceanErr = "none"
    /\ lastOp = NoOp
    /\ pre = << >>
    /\ nSplash = 0
    /\ dropped = {}

\* BoidManager.create_boids: two boids of one species, one of another
InitFlock ==
    /\ OceanIdle
    /\ CameraIdle
    /\ SpringIdle
    /\ ExtraIdle
    /\ LevelIdle
    /\ \E p1 \in Starts1, p2 \in Starts2, p3 \in Starts3, q3 \in TwinStarts3,
          d1 \in Directions, d2 \in {<<-10, 0>>, <<6, 8>>} :
          /\ boids = <<NewBoid(p1, d1), NewBoid(p2, d2), NewBoid(p3, <<10, 0>>)>>
          /\ twin  = <<NewBoid(p1, d1), NewBoid(p2, d2), NewBoid(q3, <<0, -10>>)>>
    /\ playerPos = <<7000, 5000>>
    /\ playerMode = "away"
    /\ frame = 0

\* one frame of the flock: the player has moved, then BoidManager.update runs
BoidManagerFrame ==
    /\ frame < MaxFrames
    /\ \E m \in (IF frame < FreeFrames THEN PlayerModes ELSE {playerMode}) :
          /\ playerMode' = m
          /\ playerPos' = PlayerSpot(m, boids)
          /\ boids' = BoidManagerUpdate(boids, PlayerSpot(m, boids))
          /\ twin' = BoidManagerUpdate(twin, PlayerSpot(m, boids))
    /\ frame' = frame + 1
    /\ UNCHANGED <<oceanVars, cameraVars, springVars, extraVars, levelVars>>

NextFlock == BoidManagerFrame

SpecFlock == InitFlock /\ [][NextFlock]_vars

----------------------------------------------------------------------------
(* Claims about the flock, checked under SpecFlock *)

BoidIds == DOMAIN boids

SpeedSq(vx, vy) == vx * vx + vy * vy

LimitSq == (speed_limit * FP) * (speed_limit * FP)

\* the rect keep_within_bounds tested lies inside the species bounding rect
InsideBounds(r) ==
    /\ r.ux >= bounds.x
    /\ r.ux + r.w <= right(bounds)
    /\ r.uy >= bounds.y
    /\ r.uy + r.h <= bottom(bounds)

\* C6 as stated: after FishBoid.update the magnitude of every boid's velocity
\* is at most speed_limit, also for boids outside their bounding rectangle.
C6_Original ==
    frame >= 1 => \A b \in BoidIds : SpeedSq(boids[b].vx, boids[b].vy) <= LimitSq

\* C6 amended: after FishBoid.update the velocity is the clamped velocity
\* that moved the boid, of magnitude at most speed_limit, plus the boundary
\* nudge: FISH_SIM_TURN_FACTOR toward the inside on each axis on which the
\* moved rectangle is outside the bounding rectangle.  So the magnitude is at
\* most speed_limit for a boid inside the bounding rectangle, and a boid
\* outside it may exceed speed_limit by the nudge.
C6_SpeedBound ==
    frame >= 1 =>
        \A b \in BoidIds :
            LET r == boids[b]
                t == Times(FP, FISH_SIM_TURN_FACTOR)
            IN  /\ SpeedSq(r.mvx, r.mvy) <= LimitSq
                /\ r.vx - r.mvx = (IF r.ux < bounds.x THEN t ELSE 0)
                                  - (IF r.ux + r.w > right(bounds) THEN t ELSE 0)
                /\ r.vy - r.mvy = (IF r.uy < bounds.y THEN t ELSE 0)
                                  - (IF r.uy + r.h > bottom(bounds) THEN t ELSE 0)
                /\ InsideBounds(r) => SpeedSq(r.vx, r.vy) <= LimitSq

\* a boid outside its bounding rectangle whose velocity was cut down to
\* speed_limit by the clamp and then nudged above speed_limit
C6_Witness ==
    /\ frame >= 1
    /\ \E b \in BoidIds :
          /\ ~InsideBounds(boids[b])
          /\ SpeedSq(boids[b].mvx, boids[b].mvy) <= LimitSq
          /\ SpeedSq(boids[b].vx, boids[b].vy) > LimitSq

FirstGroup == Range(fish_groups[1])

\* C10: the new velocity and position of a boid depend only on the boids of
\* its own species group and on the player: in two runs that differ only in
\* the boids of the other species, the boids of the first group are equal.
C10_SpeciesIsolation ==
    \A b \in FirstGroup : boids[b] = twin[b]

\* both runs have made two updates, the other species' boid differs between
\* them and is within vision distance of a boid of the first group, which has
\* same-species company in view as well
C10_Witness ==
    /\ frame >= 2
    /\ \E o \in BoidIds \ FirstGroup :
          /\ boids[o] # twin[o]
          /\ DistSq(boids[o], boids[1]) < FISH_SIM_VISION_DIST
          /\ DistSq(twin[o], twin[1]) < FISH_SIM_VISION_DIST
    /\ DistSq(boids[2], boids[1]) < FISH_SIM_VISION_DIST
    /\ boids[1].mvx # boids[2].mvx

\* the boids in the order BoidManager.update updates them
RECURSIVE Flatten(_)
Flatten(groups) == IF groups = << >> THEN << >> ELSE Head(groups) \o Flatten(Tail(groups))

PlaceOf(b) == CHOOSE i \in DOMAIN Flatten(fish_groups) : Flatten(fish_groups)[i] = b

\* the species group of a boid
GroupOf(b) == Range(fish_groups[CHOOSE g \in DOMAIN fish_groups : b \in Range(fish_groups[g])])

\* the flock as boid b finds it during a frame: the boids updated before it
\* have moved already, the others have not
SeenBy(b) ==
    [o \in DOMAIN boids |-> IF PlaceOf(o) < PlaceOf(b) THEN boids'[o] ELSE boids[o]]

\* C18 as stated: the list a boid is given holds boids of its species group
\* other than itself only.
C18_Original ==
    frame >= 1 =>
        \A b \in BoidIds : boids[b].nb \subseteq GroupOf(b) /\ b \notin boids[b].nb

\* the mean of the centres of the boids of nb, minus the centre of b, times
\* FISH_SIM_CENTER_FACTOR
CohesionTerm(st, b, nb) ==
    << Times(TDiv(SetSum([o \in nb |-> centerx(st[o])]) * FP, Cardinality(nb))
             - centerx(st[b]) * FP, FISH_SIM_CENTER_FACTOR),
       Times(TDiv(SetSum([o \in nb |-> centery(st[o])]) * FP, Cardinality(nb))
             - centery(st[b]) * FP, FISH_SIM_CENTER_FACTOR) >>

\* C18 amended: the list BoidManager.update passes to a boid holds exactly
\* the boids of its species group whose squared centre distance to it, at
\* the time of its update, is below FISH_SIM_VISION_DIST, the boid itself
\* (distance 0) included; the cohesion average is taken over that list, the
\* boid's own centre counted in.
C18_NeighbourList ==
    [][frame' = frame + 1 =>
          \A b \in DOMAIN boids :
              /\ boids'[b].nb = { o \in GroupOf(b) :
                                    DistSq(SeenBy(b)[o], SeenBy(b)[b]) < FISH_SIM_VISION_DIST }
              /\ b \in boids'[b].nb
              /\ boids'[b].vc[1] = boids'[b].v0[1] + CohesionTerm(SeenBy(b), b, boids'[b].nb)[1]
              /\ boids'[b].vc[2] = boids'[b].v0[2] + CohesionTerm(SeenBy(b), b, boids'[b].nb)[2]
      ]_vars

\* boid 1 was given itself and boid 2 and was pulled toward their common
\* centre; boid 3, alone in its group, was given itself only although a boid
\* of the other species is in view
C18_Witness ==
    /\ frame >= 1
    /\ boids[1].nb = {1, 2}
    /\ boids[1].vc # boids[1].v0
    /\ boids[3].nb = {3}
    /\ DistSq(boids[3].rect0, boids[1].rect0) < FISH_SIM_VISION_DIST

\* the sum over the boids of nb other than b and closer than
\* FISH_SIM_AVOID_DIST of the vector from them to b, times FISH_SIM_AVOID_FACTOR
SeparationTerm(st, b, nb) ==
    LET close == { o \in nb \ {b} : DistSq(st[o], st[b]) < FISH_SIM_AVOID_DIST }
    IN  << Times(SetSum([o \in close |-> centerx(st[b]) - centerx(st[o])]) * FP,
                 FISH_SIM_AVOID_FACTOR),
           Times(SetSum([o \in close |-> centery(st[b]) - centery(st[o])]) * FP,
                 FISH_SIM_AVOID_FACTOR) >>

\* the mean velocity of the boids of nb, b moving at v, minus v, times
\* FISH_SIM_MATCH_FACTOR
AlignmentTerm(st, b, nb, v) ==
    << Times(TDiv(SetSum([o \in nb |-> IF o = b THEN v[1] ELSE st[o].vx]), Cardinality(nb))
             - v[1], FISH_SIM_MATCH_FACTOR),
       Times(TDiv(SetSum([o \in nb |-> IF o = b THEN v[2] ELSE st[o].vy]), Cardinality(nb))
             - v[2], FISH_SIM_MATCH_FACTOR) >>

\* the player at p is within the avoidance radius of the rectangle r
PlayerNear(r, p) ==
    (p[1] - centerx(r)) * (p[1] - centerx(r)) + (p[2] - centery(r)) * (p[2] - centery(r))
        < FISH_SIM_AVOID_PLAYER_DIST

\* the vector from the player to b, times FISH_SIM_AVOID_PLAYER_FACTOR, if
\* the player is within the avoidance radius
PlayerTerm(st, b, p) ==
    IF PlayerNear(st[b], p)
    THEN << Times((centerx(st[b]) - p[1]) * FP, FISH_SIM_AVOID_PLAYER_FACTOR),
            Times((centery(st[b]) - p[2]) * FP, FISH_SIM_AVOID_PLAYER_FACTOR) >>
    ELSE <<0, 0>>

\* v cut down to the length speed_limit if it is longer
Clamped(v) ==
    IF SpeedSq(v[1], v[2]) > LimitSq
    THEN << TDiv(v[1] * speed_limit * FP, Magnitude(SpeedSq(v[1], v[2]))),
            TDiv(v[2] * speed_limit * FP, Magnitude(SpeedSq(v[1], v[2]))) >>
    ELSE v

\* C19: in every FishBoid.update the velocity is changed by cohesion, then
\* separation, then alignment (which reads the velocity the first two have
\* made), then player avoidance (only with the player's centre within
\* FISH_SIM_AVOID_PLAYER_DIST), then cut to speed_limit; the rectangle is
\* moved by the velocity so cut.
C19_ForceOrder ==
    [][frame' = frame + 1 =>
          \A b \in DOMAIN boids :
              LET st == SeenBy(b)
                  r == boids'[b]
              IN  /\ r.v0 = Velocity(st[b])
                  /\ r.rect0 = RectOf(st[b])
                  /\ r.vc[1] = r.v0[1] + CohesionTerm(st, b, r.nb)[1]
                  /\ r.vc[2] = r.v0[2] + CohesionTerm(st, b, r.nb)[2]
                  /\ r.vs[1] = r.vc[1] + SeparationTerm(st, b, r.nb)[1]
                  /\ r.vs[2] = r.vc[2] + SeparationTerm(st, b, r.nb)[2]
                  /\ r.va[1] = r.vs[1] + AlignmentTerm(st, b, r.nb, r.vs)[1]
                  /\ r.va[2] = r.vs[2] + AlignmentTerm(st, b, r.nb, r.vs)[2]
                  /\ r.vp[1] = r.va[1] + PlayerTerm(st, b, playerPos')[1]
                  /\ r.vp[2] = r.va[2] + PlayerTerm(st, b, playerPos')[2]
                  /\ <<r.mvx, r.mvy>> = Clamped(r.vp)
                  /\ r.ux + r.w \div 2 = TDiv(r.rect0.x * FP + r.mvx, FP) + r.rect0.w \div 2
                  /\ r.uy + r.h \div 2 = TDiv(r.rect0.y * FP + r.mvy, FP) + r.rect0.h \div 2
      ]_vars

\* an update in which each of the four forces changed the velocity and the
\* clamp cut it
C19_Witness ==
    /\ frame >= 1
    /\ \E b \in BoidIds :
          /\ boids[b].vc # boids[b].v0
          /\ boids[b].vs # boids[b].vc
          /\ boids[b].va # boids[b].vs
          /\ boids[b].vp # boids[b].va
          /\ <<boids[b].mvx, boids[b].mvy>> # boids[b].vp
          /\ PlayerNear(boids[b].rect0, playerPos)

\* a player position outside the avoidance radius of boid b
FarFrom(b) == <<centerx(boids[b]) + 2 * 100, centery(boids[b])>>

\* C20: for a boid with no other boid of its species in view and the player
\* outside the avoidance radius, cohesion, separation, alignment and player
\* avoidance leave the velocity unchanged; so they do for an empty list, and
\* no average is taken over zero elements.
C20_EmptyNeighbours ==
    /\ frame >= 1 =>
          \A b \in BoidIds :
              (boids[b].nb \subseteq {b} /\ ~PlayerNear(boids[b].rect0, playerPos)) =>
                  /\ boids[b].vc = boids[b].v0
                  /\ boids[b].vs = boids[b].v0
                  /\ boids[b].va = boids[b].v0
                  /\ boids[b].vp = boids[b].v0
    /\ \A b \in BoidIds :
          LET s1 == go_towards_center(boids, b, {})
              s2 == avoid_others(s1, b, {})
              s3 == match_velocity(s2, b, {})
              s4 == avoid_player(s3, b, FarFrom(b))
          IN  Velocity(s4[b]) = Velocity(boids[b])

\* a boid of the first group whose group mate is out of view, with the
\* player far away: it was given itself only and the forces left its
\* velocity as it was
C20_Witness ==
    /\ frame >= 1
    /\ \E b \in FirstGroup :
          /\ boids[b].nb = {b}
          /\ ~PlayerNear(boids[b].rect0, playerPos)
          /\ boids[b].vp = boids[b].v0
          /\ boids[b].v0 # <<0, 0>>

\* the nudge of FISH_SIM_TURN_FACTOR
TurnNudge == Times(FP, FISH_SIM_TURN_FACTOR)

\* C21 as stated: a boid that is at (or beyond) the left edge of the bounding
\* rectangle before a step and moves left in it has velocity.x increased by
\* FISH_SIM_TURN_FACTOR, and likewise toward the inside at the right, top
\* and bottom edges; a boid whose rectangle is inside the bounding rectangle
\* is not nudged.
C21_Original ==
    frame >= 1 =>
        \A b \in BoidIds :
            LET r == boids[b]
            IN  /\ (r.rect0.x <= bounds.x /\ r.mvx < 0) => r.vx - r.mvx = TurnNudge
                /\ (right(r.rect0) >= right(bounds) /\ r.mvx > 0) => r.vx - r.mvx = -TurnNudge
                /\ (r.rect0.y <= bounds.y /\ r.mvy < 0) => r.vy - r.mvy = TurnNudge
                /\ (bottom(r.rect0) >= bottom(bounds) /\ r.mvy > 0) => r.vy - r.mvy = -TurnNudge
                /\ InsideBounds(r) => (r.vx = r.mvx /\ r.vy = r.mvy)

\* C21 amended: boundary steering tests the rectangle the boid has after the
\* move and the re-centring on its rotated image: velocity.x is increased by
\* exactly FISH_SIM_TURN_FACTOR if that rectangle's left side is strictly
\* left of the bounding rectangle's, decreased by it if its right side is
\* strictly beyond the right edge (likewise velocity.y at the top and the
\* bottom), and the velocity is left as it is on an axis on which the
\* rectangle is inside.  A boid at or beyond the left edge before the step
\* whose left side the step carries further left is nudged to the right.
C21_BoundarySteering ==
    frame >= 1 =>
        \A b \in BoidIds :
            LET r == boids[b]
            IN  /\ r.ux < bounds.x => r.vx = r.mvx + TurnNudge
                /\ r.ux + r.w > right(bounds) => r.vx = r.mvx - TurnNudge
                /\ r.uy < bounds.y => r.vy = r.mvy + TurnNudge
                /\ r.uy + r.h > bottom(bounds) => r.vy = r.mvy - TurnNudge
                /\ (r.ux >= bounds.x /\ r.ux + r.w <= right(bounds)) => r.vx = r.mvx
                /\ (r.uy >= bounds.y /\ r.uy + r.h <= bottom(bounds)) => r.vy = r.mvy
                /\ (r.rect0.x <= bounds.x /\ r.ux < r.rect0.x) => r.vx > r.mvx
                /\ (right(r.rect0) >= right(bounds) /\ r.ux + r.w > right(r.rect0)) => r.vx < r.mvx
                /\ (r.rect0.y <= bounds.y /\ r.uy < r.rect0.y) => r.vy > r.mvy
                /\ (bottom(r.rect0) >= bottom(bounds) /\ r.uy + r.h > bottom(r.rect0)) => r.vy < r.mvy

\* a boid exactly at the left edge moved left and was nudged to the right
\* while a boid inside the bounding rectangle kept the velocity it moved with
C21_Witness ==
    /\ frame >= 1
    /\ \E b \in BoidIds :
          /\ boids[b].rect0.x = bounds.x
          /\ boids[b].mvx < 0
          /\ boids[b].ux < bounds.x
          /\ boids[b].vx = boids[b].mvx + TurnNudge
    /\ \E b \in BoidIds :
          /\ InsideBounds(boids[b])
          /\ Velocity(boids[b]) = <<boids[b].mvx, boids[b].mvy>>

\* a sequence back to front
Reverse(seq) == [i \in DOMAIN seq |-> seq[Len(seq) + 1 - i]]

\* C22 as stated: one BoidManager.update gives every boid the state it would
\* get from the positions and velocities all boids had at the start of the
\* frame, and processing the boids of each group in the opposite order gives
\* the same flock.
C22_Original ==
    [][frame' = frame + 1 =>
          /\ \A b \in DOMAIN boids :
                boids'[b] = FishBoidUpdate(boids, b, Neighbours(boids, GroupOf(b), b),
                                           playerPos')[b]
          /\ boids' = UpdateGroups(boids, [g \in DOMAIN fish_groups |-> Reverse(fish_groups[g])],
                                   playerPos')
      ]_vars

\* how far the step moved the top-left of boid r, before the re-centring
StepX(r) == (r.ux + r.w \div 2 - r.rect0.w \div 2) - r.rect0.x
StepY(r) == (r.uy + r.h \div 2 - r.rect0.h \div 2) - r.rect0.y

\* C26 as stated: the velocity that moves the rectangle has magnitude at most
\* speed_limit and the top-left moves by at most speed_limit in the step.
C26_Original ==
    frame >= 1 =>
        \A b \in BoidIds :
            /\ SpeedSq(boids[b].mvx, boids[b].mvy) <= LimitSq
            /\ StepX(boids[b]) * StepX(boids[b]) + StepY(boids[b]) * StepY(boids[b])
                   <= speed_limit * speed_limit

\* C26 amended: the velocity that moves the rectangle is the clamped one, of
\* magnitude at most speed_limit, without the nudge of the same update, which
\* is added afterwards.  The rectangle holds whole pixels: each coordinate of
\* the top-left moves by the velocity component up to less than one pixel,
\* hence by at most speed_limit per axis, and the distance moved is less than
\* speed_limit + 2.
C26_MoveBound ==
    frame >= 1 =>
        \A b \in BoidIds :
            LET r == boids[b]
            IN  /\ SpeedSq(r.mvx, r.mvy) <= LimitSq
                /\ <<r.mvx, r.mvy>> = Clamped(r.vp)
                /\ Abs(StepX(r) * FP - r.mvx) < FP
                /\ Abs(StepY(r) * FP - r.mvy) < FP
                /\ Abs(StepX(r)) <= speed_limit
                /\ Abs(StepY(r)) <= speed_limit
                /\ StepX(r) * StepX(r) + StepY(r) * StepY(r)
                       < (speed_limit + 2) * (speed_limit + 2)
                /\ r.vx = r.mvx + r.nx
                /\ r.vy = r.mvy + r.ny

\* a boid whose velocity was cut down to speed_limit, whose top-left moved
\* further than speed_limit, and that was nudged after the move
C26_Witness ==
    /\ frame >= 1
    /\ \E b \in BoidIds :
          /\ SpeedSq(boids[b].vp[1], boids[b].vp[2]) > LimitSq
          /\ StepX(boids[b]) * StepX(boids[b]) + StepY(boids[b]) * StepY(boids[b])
                 > speed_limit * speed_limit
          /\ <<boids[b].nx, boids[b].ny>> # <<0, 0>>

----------------------------------------------------------------------------
(* Camera *)

\* Camera.update calls allowed in one run
MaxCamSteps == 3

RECURSIVE Pow(_, _)
Pow(b, n) == IF n = 0 THEN 1 ELSE b * Pow(b, n - 1)

\* Camera positions and points are kept exactly, as integers in units of
\* 1 / CamUnit: halves for screen_size / 2, a power of 5 for the 0.2 steps
CamUnit == 2 * Pow(5, MaxCamSteps + 1)

\* the smoothing factor 0.2, in thousandths
CAMERA_SMOOTHING == 200

camera_update_snap(position, target) == <<target[1] * CamUnit, target[2] * CamUnit>>

\* Camera.update: self.position += (self.target.rect.center - self.position) * 0.2
camera_update(position, target) ==
    << position[1] + Times(target[1] * CamUnit - position[1], CAMERA_SMOOTHING),
       position[2] + Times(target[2] * CamUnit - position[2], CAMERA_SMOOTHING) >>

\* self.manager.screen_size / 2
HalfScreen(size) == << (size[1] * CamUnit) \div 2, (size[2] * CamUnit) \div 2 >>

\* Camera.world_to_screen: coords - self.position + self.manager.screen_size / 2
world_to_screen(coords, position, size) ==
    << coords[1] - position[1] + HalfScreen(size)[1],
       coords[2] - position[2] + HalfScreen(size)[2] >>

screen_to_world_unshifted(coords, position, size) ==
    << coords[1] + position[1], coords[2] + position[2] >>

\* Camera.screen_to_world: coords + self.position - self.manager.screen_size / 2
screen_to_world(coords, position, size) ==
    << coords[1] + position[1] - HalfScreen(size)[1],
       coords[2] + position[2] - HalfScreen(size)[2] >>

----------------------------------------------------------------------------
(* Inputs and bounds of the camera specification *)

\* centres of the camera's target (the player)
CamTargets == { <<64, -20>>, <<70, 5>>, <<300, -100>> }

CamScreens == { <<1280, 720>>, <<801, 601>> }

\* points to convert, in units of 1 / CamUnit: on and off the pixel grid
CamPoints == { <<0, 0>>, <<640 * CamUnit, 360 * CamUnit>>, <<-33 * CamUnit + 7, 900 * CamUnit - 1>> }

\* Camera.__init__: the position starts on the target's centre
InitCamera ==
    /\ OceanIdle
    /\ FlockIdle
    /\ SpringIdle
    /\ ExtraIdle
    /\ LevelIdle
    /\ camTarget \in CamTargets
    /\ camPos = <<camTarget[1] * CamUnit, camTarget[2] * CamUnit>>
    /\ camScreen \in CamScreens
    /\ camSteps = 0
    /\ camLast = [op |-> "init", before |-> camPos, target |-> camTarget]
    /\ conv = [op |-> "none", p |-> <<0, 0>>, image |-> <<0, 0>>, back |-> <<0, 0>>]

\* Player.update moves the target
CamTargetMoves ==
    /\ \E c \in CamTargets : camTarget' = c
    /\ UNCHANGED <<camPos, camScreen, camSteps, camLast, conv>>
    /\ UNCHANGED <<oceanVars, flockVars, springVars, extraVars, levelVars>>

\* Manager.on_resize
CamResize ==
    /\ \E s \in CamScreens : camScreen' = s
    /\ UNCHANGED <<camPos, camTarget, camSteps, camLast, conv>>
    /\ UNCHANGED <<oceanVars, flockVars, springVars, extraVars, levelVars>>

\* Camera.update
CameraUpdate ==
    /\ camSteps < MaxCamSteps
    /\ camPos' = camera_update(camPos, camTarget)
    /\ camLast' = [op |-> "update", before |-> camPos, target |-> camTarget]
    /\ camSteps' = camSteps + 1
    /\ UNCHANGED <<camTarget, camScreen, conv>>
    /\ UNCHANGED <<oceanVars, flockVars, springVars, extraVars, levelVars>>

\* screen_to_world(world_to_screen(p))
WorldScreenWorld ==
    /\ \E p \in CamPoints :
          LET image == world_to_screen(p, camPos, camScreen)
          IN  conv' = [op |-> "world_screen_world", p |-> p, image |-> image,
                       back |-> screen_to_world(image, camPos, camScreen)]
    /\ UNCHANGED <<camPos, camTarget, camScreen, camSteps, camLast>>
    /\ UNCHANGED <<oceanVars, flockVars, springVars, extraVars, levelVars>>

\* world_to_screen(screen_to_world(p))
ScreenWorldScreen ==
    /\ \E p \in CamPoints :
          LET image == screen_to_world(p, camPos, camScreen)
          IN  conv' = [op |-> "screen_world_screen", p |-> p, image |-> image,
                       back |-> world_to_screen(image, camPos, camScreen)]
    /\ UNCHANGED <<camPos, camTarget, camScreen, camSteps, camLast>>
    /\ UNCHANGED <<oceanVars, flockVars, springVars, extraVars, levelVars>>

NextCamera == CamTargetMoves \/ CamResize \/ CameraUpdate \/ WorldScreenWorld \/ ScreenWorldScreen

SpecCamera == InitCamera /\ [][NextCamera]_vars

----------------------------------------------------------------------------
(* Claims about the camera, checked under SpecCamera *)

\* C8: for every point, camera position and fixed screen size,
\* screen_to_world(world_to_screen(p)) = p and
\* world_to_screen(screen_to_world(p)) = p.
C8_CameraInverse ==
    conv.op # "none" => conv.back = conv.p

\* a round trip through the screen, off the pixel grid, for a camera that
\* has moved off its target and an odd screen size: the image differs from
\* the point and the way back returns it
C8_Witness ==
    /\ conv.op = "world_screen_world"
    /\ conv.image # conv.p
    /\ conv.back = conv.p
    /\ conv.p[1] % CamUnit # 0
    /\ camSteps >= 1
    /\ camPos # <<camTarget[1] * CamUnit, camTarget[2] * CamUnit>>
    /\ camScreen[1] % 2 = 1

\* the vector from a camera position to the centre of a target
Gap(position, target) == <<target[1] * CamUnit - position[1], target[2] * CamUnit - position[2]>>

\* C9: each Camera.update moves the position by exactly 0.2 of the vector to
\* the target's centre, so the gap left is 0.8 of the gap before; a camera
\* that is not on the target before an update is not on it after.
C9_CameraSmoothing ==
    camLast.op = "update" =>
        LET before == Gap(camLast.before, camLast.target)
            after  == Gap(camPos, camLast.target)
        IN  /\ 5 * (before[1] - after[1]) = before[1]
            /\ 5 * (before[2] - after[2]) = before[2]
            /\ 5 * after[1] = 4 * before[1]
            /\ 5 * after[2] = 4 * before[2]
            /\ before # <<0, 0>> => after # <<0, 0>>

\* the last of several updates, made off the target on both axes
C9_Witness ==
    /\ camLast.op = "update"
    /\ camSteps = MaxCamSteps
    /\ Gap(camLast.before, camLast.target)[1] # 0
    /\ Gap(camLast.before, camLast.target)[2] # 0
    /\ Gap(camPos, camLast.target) # <<0, 0>>
    /\ camLast.before # <<camTarget[1] * CamUnit, camTarget[2] * CamUnit>>

----------------------------------------------------------------------------
(* WaterSpring *)

\* the arguments Ocean.add_spring gives every spring, in units of 1 / FP
spring_constant == 18
dampening == 36

\* the product of a fixed-point value and a factor in units of 1 / FP,
\* rounded to the nearest fixed-point value
FMul(a, f) ==
    IF a * f >= 0 THEN (2 * a * f + FP) \div (2 * FP) ELSE -((2 * (-(a * f)) + FP) \div (2 * FP))

WaterSpringUpdateUndamped(s) ==
    LET force == -FMul(s.extension, spring_constant)
        v == s.velocity + force
    IN  [s EXCEPT !.velocity = v, !.extension = s.extension + v]

\* WaterSpring.update:
\*   force = -self.extension * self.spring_constant - self.velocity * self.dampening
\*   self.velocity += force; self.extension += self.velocity
WaterSpringUpdate(s) ==
    LET force == -FMul(s.extension, spring_constant) - FMul(s.velocity, dampening)
        v == s.velocity + force
    IN  [s EXCEPT !.velocity = v, !.extension = s.extension + v]

----------------------------------------------------------------------------
(* Inputs and bounds of the lone-spring specification *)

\* start extensions, in whole units, of both signs
LoneStarts == {-40, -10, -3, 3, 10, 40}

\* WaterSpring.update calls allowed in one run
MaxLoneSteps == 90

\* a spring as add_spring creates it, then displaced, with no neighbour
InitSpring ==
    /\ OceanIdle
    /\ FlockIdle
    /\ CameraIdle
    /\ LevelIdle
    /\ ExtraIdle
    /\ \E e \in LoneStarts :
          /\ lone = [NewSpring EXCEPT !.extension = e * FP]
          /\ loneHist = [start |-> e * FP, prev |-> e * FP, prev2 |-> e * FP,
                         peaks |-> <<Abs(e * FP)>>, n |-> 0]

\* the update group calls WaterSpring.update once per frame; a peak is
\* recorded once the magnitude of the extension has turned down from it
LoneUpdate ==
    /\ loneHist.n < MaxLoneSteps
    /\ lone' = WaterSpringUpdate(lone)
    /\ loneHist' = [loneHist EXCEPT
          !.prev = lone.extension,
          !.prev2 = loneHist.prev,
          !.n = @ + 1,
          !.peaks = IF /\ loneHist.n >= 1
                       /\ Abs(lone.extension) > Abs(loneHist.prev)
                       /\ Abs(lone.extension) >= Abs(lone'.extension)
                    THEN Append(@, Abs(lone.extension))
                    ELSE @]
    /\ UNCHANGED <<oceanVars, flockVars, cameraVars, levelVars, extraVars>>

NextSpring == LoneUpdate

SpecSpring == InitSpring /\ [][NextSpring]_vars

----------------------------------------------------------------------------
(* Claims about one spring, checked under SpecSpring *)

Sign(n) == IF n > 0 THEN 1 ELSE IF n < 0 THEN -1 ELSE 0

\* C11 as stated: at every WaterSpring.update of a lone spring started from a
\* non-zero extension with zero velocity, the magnitude of the extension
\* strictly decreases.
C11_Original ==
    loneHist.n >= 1 => Abs(lone.extension) < Abs(loneHist.prev)

\* C11 amended: the spring is under-damped.  The magnitude of the extension
\* strictly decreases at every update until the extension first changes sign;
\* the spring then swings through 0 and the magnitude grows again up to a
\* peak.  The magnitude never exceeds that of the start, every peak is
\* strictly lower than the peak before it, and from 60 updates on the
\* magnitude is below half of the start's: the oscillation decays toward 0.
C11_SpringDecay ==
    /\ Abs(lone.extension) <= Abs(loneHist.start)
    /\ (loneHist.n >= 1 /\ Sign(lone.extension) = Sign(loneHist.start)
          /\ Len(loneHist.peaks) = 1)
          => Abs(lone.extension) < Abs(loneHist.prev)
    /\ \A i \in 1..(Len(loneHist.peaks) - 1) : loneHist.peaks[i + 1] < loneHist.peaks[i]
    /\ loneHist.n >= 60 => 2 * Abs(lone.extension) < Abs(loneHist.start)

\* the spring has swung through 0 at least twice: two peaks after the start,
\* each lower than the one before
C11_Witness ==
    /\ Len(loneHist.peaks) >= 3
    /\ loneHist.peaks[3] < loneHist.peaks[2]
    /\ loneHist.peaks[2] < loneHist.peaks[1]
    /\ Sign(lone.extension) = -Sign(loneHist.start)

----------------------------------------------------------------------------
(* One frame: FishLevel.update runs the update group *)

\* Ocean.spread = 0.1 / wave_interval, in units of 1 / FP
spread == 15

\* Ocean.passes
passes == 8

\* the keys of a set in ascending order
RECURSIVE Ascending(_)
Ascending(S) == IF S = {} THEN << >> ELSE <<SetMin(S)>> \o Ascending(S \ {SetMin(S)})

\* the keys of a set in descending order
RECURSIVE Descending(_)
Descending(S) == IF S = {} THEN << >> ELSE <<SetMax(S)>> \o Descending(S \ {SetMax(S)})

\* what the body of the inner loop of update_springs, run for the spring at
\* i, adds to the velocity of its neighbour at n (nothing if no spring is there)
Couple(s, i, n) ==
    IF i \in DOMAIN s /\ n \in DOMAIN s
    THEN FMul(s[i].extension - s[n].extension, spread)
    ELSE 0

CouplePassLeftOnly(s) ==
    [k \in DOMAIN s |->
        [s[k] EXCEPT !.velocity = @ + Couple(s, k + wave_interval, k)]]

\* for i, spring in self.springs.items(): one pass.  The loop reads
\* extensions and writes velocities only, so whatever the order of the
\* springs, the spring at k gains what the loop body adds to it when run for
\* k + wave_interval (whose left neighbour it is) and for k - wave_interval
\* (whose right neighbour it is).
CouplePass(s) ==
    [k \in DOMAIN s |->
        [s[k] EXCEPT !.velocity = @ + Couple(s, k + wave_interval, k)
                                    + Couple(s, k - wave_interval, k)]]

\* for _ in range(self.passes)
RECURSIVE CouplePasses(_, _)
CouplePasses(s, n) ==
    IF n = 0 THEN s ELSE CouplePasses(CouplePass(s), n - 1)

\* Ocean.update_springs
update_springs(s) == CouplePasses(s, passes)

\* an entry of the update group, an entry of the trace
\* (born: the frame in which the sprite was made, 0 for FishLevel.__init__;
\* at: the place in the list being run of the sprite that makes the call;
\* speed: the speed argument of a splash; moved: the springs whose velocity
\* a Player.update changed)
Member(kind, key, born) == [kind |-> kind, key |-> key, born |-> born]
Event(call, key, s, lv) ==
    [call |-> call, key |-> key, keys |-> DOMAIN s, at |-> lv.at, born |-> lv.born,
     speed |-> 0, moved |-> {}]

\* the frame's running state: the springs, the update group, the calls made
\* so far, the exception raised, the player, the number of the frame, the
\* place reached in the list and the birth of the sprite there
Running(s, g, t, err, x, y, w, n) ==
    [springs |-> s, group |-> g, trace |-> t, err |-> err, x |-> x, y |-> y, inWater |-> w,
     frame |-> n, at |-> 0, born |-> 0]

Min2(a, b) == IF a < b THEN a ELSE b

\* lerp(0, peak, min(abs(self.velocity.y), 30) / 30)
SplashSpeed(peak, vy) == lerp(0, peak * FP, (Min2(Abs(vy), 30) * FP) \div 30)

\* half the size of the player's rectangle
PlayerHalf == <<24, 8>>

PlayerUpdateSplashInWater(lv, v) ==
    LET now_in_water == ~(lv.y < 0)
        entering == now_in_water
        leaving == ~now_in_water /\ lv.inWater
        peak == IF entering THEN 10 ELSE -10
        s1 == IF entering \/ leaving
              THEN splash(lv.springs, lv.x, SplashSpeed(peak, v[2]), 4)
              ELSE lv.springs
        t0 == Append(lv.trace,
                     [Event("Player.update", lv.x, lv.springs, lv) EXCEPT
                         !.moved = { k \in DOMAIN s1 : s1[k] # lv.springs[k] }])
        t1 == IF entering \/ leaving
              THEN Append(t0, [Event("splash", lv.x, lv.springs, lv) EXCEPT
                                  !.speed = SplashSpeed(peak, v[2])])
              ELSE t0
        x1 == IF lv.x + v[1] - PlayerHalf[1] < WORLD_LEFT
              THEN WORLD_LEFT + PlayerHalf[1] ELSE lv.x + v[1]
        x2 == IF x1 + PlayerHalf[1] > WORLD_RIGHT THEN WORLD_RIGHT - PlayerHalf[1] ELSE x1
        y1 == IF lv.y + v[2] + PlayerHalf[2] > WORLD_BOTTOM
              THEN WORLD_BOTTOM - PlayerHalf[2] ELSE lv.y + v[2]
    IN  [lv EXCEPT !.springs = s1, !.trace = t1, !.x = x2, !.y = y1, !.inWater = now_in_water]

\* Player.update: the splashes on entering and leaving the water, then the
\* move by the velocity v and the clamp into the world
PlayerUpdate(lv, v) ==
    LET now_in_water == ~(lv.y < 0)
        entering == now_in_water /\ ~lv.inWater
        leaving == ~now_in_water /\ lv.inWater
        peak == IF entering THEN 10 ELSE -10
        s1 == IF entering \/ leaving
              THEN splash(lv.springs, lv.x, SplashSpeed(peak, v[2]), 4)
              ELSE lv.springs
        t0 == Append(lv.trace,
                     [Event("Player.update", lv.x, lv.springs, lv) EXCEPT
                         !.moved = { k \in DOMAIN s1 : s1[k] # lv.springs[k] }])
        t1 == IF entering \/ leaving
              THEN Append(t0, [Event("splash", lv.x, lv.springs, lv) EXCEPT
                                  !.speed = SplashSpeed(peak, v[2])])
              ELSE t0
        x1 == IF lv.x + v[1] - PlayerHalf[1] < WORLD_LEFT
              THEN WORLD_LEFT + PlayerHalf[1] ELSE lv.x + v[1]
        x2 == IF x1 + PlayerHalf[1] > WORLD_RIGHT THEN WORLD_RIGHT - PlayerHalf[1] ELSE x1
        y1 == IF lv.y + v[2] + PlayerHalf[2] > WORLD_BOTTOM
              THEN WORLD_BOTTOM - PlayerHalf[2] ELSE lv.y + v[2]
    IN  [lv EXCEPT !.springs = s1, !.trace = t1, !.x = x2, !.y = y1, !.inWater = now_in_water]

\* WaterSpring.update of the spring the group holds for key k; a spring
\* killed earlier in the frame is still in the list being run but no longer
\* in Ocean.springs
SpringMemberUpdate(lv, k) ==
    IF k \in DOMAIN lv.springs
    THEN [lv EXCEPT !.springs = [@ EXCEPT ![k] = WaterSpringUpdate(@)],
                    !.trace = Append(@, Event("WaterSpring.update", k, lv.springs, lv))]
    ELSE [lv EXCEPT !.trace = Append(@, Event("killed.update", k, lv.springs, lv))]

SelectSeq2(seq, S) == SelectSeq(seq, LAMBDA m : ~(m.kind = "spring" /\ m.key \in S))

\* the springs add_more_springs created, in the order of creation: leftward
\* from the old left end, then rightward from the old right end
CreatedOrder(before, after) ==
    LET new == (DOMAIN after) \ (DOMAIN before)
        lo == SetMin(DOMAIN before)
    IN  Descending({ k \in new : k < lo }) \o Ascending({ k \in new : k > lo })

RECURSIVE Members(_, _)
Members(keys, born) ==
    IF keys = << >> THEN << >>
    ELSE <<Member("spring", Head(keys), born)>> \o Members(Tail(keys), born)

OceanUpdateNoRefill(lv, width) ==
    [lv EXCEPT !.springs = update_springs(lv.springs),
               !.trace = Append(@, Event("update_springs", lv.x, lv.springs, lv))]

\* Ocean.update: add_more_springs, then update_springs.  add_spring puts the
\* new spring at the end of the update group (Manager.add), remove_spring
\* takes the spring out of it (kill).  An exception ends the frame.
OceanUpdate(lv, width) ==
    LET r == add_more_springs(lv.springs, lv.x, width)
        t1 == Append(lv.trace, Event("add_more_springs", lv.x, lv.springs, lv))
        g1 == SelectSeq2(lv.group, (DOMAIN lv.springs) \ (DOMAIN r.springs))
              \o Members(CreatedOrder(lv.springs, r.springs), lv.frame)
    IN  IF r.err # "none"
        THEN [lv EXCEPT !.springs = r.springs, !.trace = t1, !.err = r.err]
        ELSE [lv EXCEPT !.springs = update_springs(r.springs),
                        !.group = g1,
                        !.trace = Append(t1, Event("update_springs", lv.x, r.springs, lv))]

\* sprite.update() for one sprite of the update group
MemberUpdate(lv, m, v, width) ==
    IF lv.err # "none" THEN lv
    ELSE CASE m.kind = "player" -> PlayerUpdate(lv, v)
           [] m.kind = "spring" -> SpringMemberUpdate(lv, m.key)
           [] m.kind = "ocean"  -> OceanUpdate(lv, width)
           [] OTHER -> [lv EXCEPT !.trace = Append(@, Event(m.kind, 0, lv.springs, lv))]

\* Group.update: for sprite in self.sprites(): sprite.update(), over the
\* list of the sprites taken when the call starts
RECURSIVE GroupUpdate(_, _, _, _)
GroupUpdate(lv, sprites, v, width) ==
    IF sprites = << >> THEN lv
    ELSE GroupUpdate(MemberUpdate([lv EXCEPT !.at = @ + 1, !.born = Head(sprites).born],
                                  Head(sprites), v, width),
                     Tail(sprites), v, width)

----------------------------------------------------------------------------
(* Inputs and bounds of the frame specification *)

LevelWidths == {24, 40}

\* the player's velocity in a frame, as the mouse, gravity and drag set it
PlayerVelocities == { <<0, 0>>, <<8, 30>>, <<-8, -30>>, <<3, 12>>, <<13, -7>> }

\* cards in the level (the game adds 52; a card's update does not touch the ocean)
NumCards == 2

\* FishLevel.update calls allowed in one run
MaxTicks == 3

RECURSIVE CardMembers(_)
CardMembers(n) == IF n = 0 THEN << >> ELSE CardMembers(n - 1) \o <<Member("card", n, 0)>>

InitGroupOceanFirst(s) ==
    <<Member("ocean", 0, 0), Member("player", 0, 0), Member("camera", 0, 0)>>
    \o Members(Ascending(DOMAIN s), 0)
    \o <<Member("boid-manager", 0, 0), Member("compass", 0, 0),
         Member("card-display", 0, 0), Member("timer", 0, 0)>>
    \o CardMembers(NumCards)

\* FishLevel.__init__: Manager.add in the order of construction; the springs
\* Ocean.__init__ creates enter the group before the ocean itself does
InitGroup(s) ==
    <<Member("player", 0, 0), Member("camera", 0, 0)>>
    \o Members(Ascending(DOMAIN s), 0)
    \o <<Member("ocean", 0, 0), Member("boid-manager", 0, 0), Member("compass", 0, 0),
         Member("card-display", 0, 0), Member("timer", 0, 0)>>
    \o CardMembers(NumCards)

\* FishLevel.__init__: the player stands on the water line at the left wall
InitLevel ==
    /\ FlockIdle
    /\ CameraIdle
    /\ SpringIdle
    /\ ExtraIdle
    /\ screenW \in LevelWidths
    /\ \E old \in BOOLEAN : springs = InitSprings(screenW, old)
    /\ playerX = WORLD_LEFT + PlayerHalf[1]
    /\ playerY = -PlayerHalf[2]
    /\ inWater = FALSE
    /\ updateGroup = InitGroup(springs)
    /\ trace = << >>
    /\ ticks = 0
    /\ oceanErr = "none"
    /\ lastOp = NoOp
    /\ pre = springs
    /\ nSplash = 0
    /\ dropped = {}

\* the add_more_springs call of a trace, as lastOp keeps it
LastAdd(t) ==
    LET adds == SelectSeq(t, LAMBDA e : e.call = "add_more_springs")
    IN  IF adds = << >> THEN NoOp
        ELSE [op |-> "add_more_springs", position |-> adds[1].key, speed |-> 0, size |-> 0]

\* FishLevel.update with no overlay: self.manager.groups["update"].update()
FishLevelUpdate ==
    /\ ticks < MaxTicks
    /\ oceanErr = "none"
    /\ \E v \in PlayerVelocities :
          \E lv \in { GroupUpdate(Running(springs, updateGroup, << >>, "none",
                                           playerX, playerY, inWater, ticks + 1),
                                   updateGroup, v, screenW) } :
              /\ springs' = lv.springs
              /\ updateGroup' = lv.group
              /\ trace' = lv.trace
              /\ oceanErr' = lv.err
              /\ playerX' = lv.x
              /\ playerY' = lv.y
              /\ inWater' = lv.inWater
    /\ ticks' = ticks + 1
    /\ pre' = springs
    /\ lastOp' = LastAdd(trace)
    /\ UNCHANGED <<screenW, nSplash, dropped>>
    /\ UNCHANGED <<flockVars, cameraVars, springVars, extraVars>>

\* FishLevel.on_resize between two frames
LevelResize ==
    /\ oceanErr = "none"
    /\ \E w \in LevelWidths : screenW' = w
    /\ UNCHANGED <<springs, playerX, oceanErr, lastOp, pre, nSplash, dropped>>
    /\ UNCHANGED <<flockVars, cameraVars, springVars, extraVars, levelVars>>

NextLevel == FishLevelUpdate \/ LevelResize

SpecLevel == InitLevel /\ [][NextLevel]_vars

----------------------------------------------------------------------------
(* Claims about the frame, checked under SpecLevel *)

\* the positions in the trace of the calls named in S
Calls(S) == { i \in DOMAIN trace : trace[i].call \in S }

StartUp(j) == trace[j].born = 0

C16_Original ==
    \A i \in Calls({"update_springs"}) :
        \A k \in trace[i].keys :
            \E j \in Calls({"WaterSpring.update"}) : trace[j].key = k /\ j < i

\* C23: Player.update calls Ocean.splash in a frame exactly when the
\* player's in-water status (centre y >= 0 at the start of the frame) differs
\* from the status the previous frame recorded, and then once, at the
\* player's centre x, with a speed in [0, 10] on entering the water and in
\* [-10, 0] on leaving it; in a frame without such a change Player.update
\* changes no spring.
C23_SplashOnTransition ==
    [][ticks' = ticks + 1 =>
          LET now_in_water == playerY >= 0
              splashes == { i \in DOMAIN trace' : trace'[i].call = "splash" }
              updates == { i \in DOMAIN trace' : trace'[i].call = "Player.update" }
          IN  /\ (splashes # {}) <=> (now_in_water # inWater)
              /\ Cardinality(splashes) <= 1
              /\ Cardinality(updates) = 1
              /\ inWater' = now_in_water
              /\ \A i \in splashes :
                    /\ i - 1 \in updates
                    /\ trace'[i].key = playerX
                    /\ now_in_water => (0 <= trace'[i].speed /\ trace'[i].speed <= 10 * FP)
                    /\ ~now_in_water => (-10 * FP <= trace'[i].speed /\ trace'[i].speed <= 0)
              /\ splashes = {} => \A i \in updates : trace'[i].moved = {}
      ]_vars

\* the player has just left the water with a splash that set springs moving,
\* after entering it with one in an earlier frame
C23_Witness ==
    /\ ticks >= 3
    /\ ~inWater
    /\ \E i \in Calls({"splash"}) : trace[i].speed < 0
    /\ \E i \in Calls({"Player.update"}) : trace[i].moved # {}

----------------------------------------------------------------------------
(* The running game: the frame specification with a window in proportion *)

\* The game's window is 1280 wide (pygame.display.set_mode((1280, 720)));
\* these widths are scaled down but, like it, not smaller than the reach of a
\* splash plus one grid step, (4 + 1) * wave_interval.
DiveWidths == {40, 56}

InitDive ==
    /\ FlockIdle
    /\ CameraIdle
    /\ SpringIdle
    /\ ExtraIdle
    /\ screenW \in DiveWidths
    /\ springs = InitSprings(screenW, FALSE)
    /\ playerX = WORLD_LEFT + PlayerHalf[1]
    /\ playerY = -PlayerHalf[2]
    /\ inWater = FALSE
    /\ updateGroup = InitGroup(springs)
    /\ trace = << >>
    /\ ticks = 0
    /\ oceanErr = "none"
    /\ lastOp = NoOp
    /\ pre = springs
    /\ nSplash = 0
    /\ dropped = {}

\* FishLevel.on_resize between two frames
DiveResize ==
    /\ oceanErr = "none"
    /\ \E w \in DiveWidths : screenW' = w
    /\ UNCHANGED <<springs, playerX, oceanErr, lastOp, pre, nSplash, dropped>>
    /\ UNCHANGED <<flockVars, cameraVars, springVars, extraVars, levelVars>>

NextDive == FishLevelUpdate \/ DiveResize

SpecDive == InitDive /\ [][NextDive]_vars

\* C25: whenever Player.update calls Ocean.splash, every grid index the
\* splash goes over, from 4 steps left of the targeted index to 3 steps right
\* of it, holds a live spring, in every frame of a run from the initial level.
C25_NoDroppedSplash ==
    \A i \in Calls({"splash"}) :
        /\ SplashRange(trace[i].key, 4) \subseteq trace[i].keys
        /\ Cardinality(SplashRange(trace[i].key, 4)) = 2 * 4
        /\ oceanErr = "none"

\* a splash whose leftmost index is the window's leftmost spring, in a window
\* that Ocean.update has made around the player
C25_Witness ==
    /\ ticks >= 2
    /\ \E i \in Calls({"splash"}) :
          /\ SetMin(SplashRange(trace[i].key, 4)) = SetMin(trace[i].keys)
          /\ SetMax(SplashRange(trace[i].key, 4)) < SetMax(trace[i].keys)
          /\ \E j \in Calls({"Player.update"}) :
                Cardinality(trace[j].moved) >= 2 * 4 - 1

----------------------------------------------------------------------------
(* The coupling of the springs on its own: inputs and bounds *)

\* half widths of the window of springs
CoupleWidths == {16, 32}

\* the extension of the one displaced spring, in whole units
CoupleStarts == {10, -4}

\* calls of update_springs and rounds of WaterSpring.update allowed in one run
MaxCouple == 3

\* a window of springs at rest, one of them displaced
InitCouple ==
    /\ FlockIdle
    /\ CameraIdle
    /\ SpringIdle
    /\ ExtraIdle
    /\ \E w \in CoupleWidths, e \in CoupleStarts :
          \E d \in Multiples(-w, w) :
              /\ screenW = w
              /\ springs = [k \in Multiples(-w, w) |->
                              IF k = d THEN [NewSpring EXCEPT !.extension = e * FP]
                              ELSE NewSpring]
    /\ playerX = 0
    /\ oceanErr = "none"
    /\ lastOp = NoOp
    /\ pre = springs
    /\ nSplash = 0
    /\ dropped = {}
    /\ updateGroup = << >>
    /\ trace = << >>
    /\ playerY = 0
    /\ inWater = FALSE
    /\ ticks = 0

\* Ocean.update_springs
UpdateSprings ==
    /\ ticks < MaxCouple
    /\ springs' = update_springs(springs)
    /\ pre' = springs
    /\ lastOp' = [NoOp EXCEPT !.op = "update_springs"]
    /\ ticks' = ticks + 1
    /\ UNCHANGED <<playerX, screenW, oceanErr, nSplash, dropped>>
    /\ UNCHANGED <<updateGroup, trace, playerY, inWater>>
    /\ UNCHANGED <<flockVars, cameraVars, springVars, extraVars>>

\* WaterSpring.update of every spring, as the update group calls them
SpringsStep ==
    /\ ticks < MaxCouple
    /\ springs' = [k \in DOMAIN springs |-> WaterSpringUpdate(springs[k])]
    /\ pre' = springs
    /\ lastOp' = [NoOp EXCEPT !.op = "WaterSpring.update"]
    /\ ticks' = ticks + 1
    /\ UNCHANGED <<playerX, screenW, oceanErr, nSplash, dropped>>
    /\ UNCHANGED <<updateGroup, trace, playerY, inWater>>
    /\ UNCHANGED <<flockVars, cameraVars, springVars, extraVars>>

NextCouple == UpdateSprings \/ SpringsStep

SpecCouple == InitCouple /\ [][NextCouple]_vars

----------------------------------------------------------------------------
(* Claims about the coupling, checked under SpecCouple *)

\* the springs that were off their rest position before the last call
Displaced == { k \in DOMAIN pre : pre[k].extension # 0 }

\* C17 as stated: with passes > 1, one update_springs call lets a
\* displacement at a single spring change the velocity of springs more than
\* one grid step away, where such springs are live.
C17_Original ==
    (/\ lastOp.op = "update_springs"
     /\ passes > 1
     /\ Cardinality(Displaced) = 1
     /\ \E k \in DOMAIN pre : \A d \in Displaced : Abs(k - d) > wave_interval)
      => \E k \in DOMAIN pre :
            /\ \A d \in Displaced : Abs(k - d) > wave_interval
            /\ springs[k].velocity # pre[k].velocity

\* the sum of the velocities of the springs of s
VelocitySum(s) == SetSum([k \in DOMAIN s |-> s[k].velocity])

\* what one pass with the spread f adds to the velocity of the spring at k
ScaledGain(s, k, f) ==
    (IF k + wave_interval \in DOMAIN s
     THEN FMul(s[k + wave_interval].extension - s[k].extension, f) ELSE 0)
    + (IF k - wave_interval \in DOMAIN s
       THEN FMul(s[k - wave_interval].extension - s[k].extension, f) ELSE 0)

\* C24: update_springs changes no spring's extension and leaves the sum of
\* the velocities of the live springs unchanged; every pass adds the same
\* amounts, so the velocities after passes = P are those of one pass with
\* the spread multiplied by P (up to the rounding of the products, half a
\* unit of 1 / FP for each of the two neighbours and each pass, and exactly
\* where the products are exact).
C24_CouplingConserves ==
    lastOp.op = "update_springs" =>
        /\ DOMAIN springs = DOMAIN pre
        /\ \A k \in DOMAIN pre : springs[k].extension = pre[k].extension
        /\ VelocitySum(springs) = VelocitySum(pre)
        /\ \A k \in DOMAIN pre :
              /\ springs[k].velocity = pre[k].velocity + passes * ScaledGain(pre, k, spread)
              /\ Abs(springs[k].velocity - (pre[k].velocity + ScaledGain(pre, k, passes * spread)))
                    <= passes
              /\ (\A j \in DOMAIN pre : (pre[j].extension * spread) % FP = 0)
                    => springs[k].velocity = pre[k].velocity + ScaledGain(pre, k, passes * spread)

\* update_springs has run on springs that were moving, several of them off
\* their rest position, and has changed velocities
C24_Witness ==
    /\ lastOp.op = "update_springs"
    /\ Cardinality(Displaced) >= 3
    /\ \E k \in DOMAIN pre : pre[k].velocity # 0 /\ springs[k].velocity # pre[k].velocity
    /\ VelocitySum(pre) # 0
    /\ \E j \in DOMAIN pre : (pre[j].extension * spread) % FP # 0

----------------------------------------------------------------------------
(* The springs as sprites: Ocean.springs and the update group, call by call *)

\* the values of a function
Values(f) == { f[k] : k \in DOMAIN f }

\* f without the key k
Without(f, k) == [j \in (DOMAIN f) \ {k} |-> f[j]]

\* f with the key k set to v
With(f, k, v) == [j \in (DOMAIN f) \cup {k} |-> IF j = k THEN v ELSE f[j]]

\* Ocean.add_spring: a new WaterSpring (the sprite r.next) is stored under
\* the position and Manager.add puts it at the end of the update group
RegAddSpring(r, position) ==
    [r EXCEPT !.springs = With(@, position, r.next),
              !.group = Append(@, r.next),
              !.next = @ + 1]

RegRemoveSpringNoKill(r, position) ==
    [r EXCEPT !.springs = Without(@, position)]

\* Ocean.remove_spring: spring.kill() takes the sprite stored under the
\* position out of every group, then the entry is deleted
RegRemoveSpring(r, position) ==
    [r EXCEPT !.springs = Without(@, position),
              !.group = SelectSeq(@, LAMBDA sprite : sprite # r.springs[position])]

\* add_more_springs calls allowed in one run
MaxRegCalls == 3

\* Ocean.__init__: self.springs = {}; self.add_spring(0)
InitRegistry ==
    /\ OceanIdle
    /\ FlockIdle
    /\ CameraIdle
    /\ SpringIdle
    /\ LevelIdle
    /\ GameIdle
    /\ PlayerIdle
    /\ registry = [springs |-> (0 :> 1), group |-> <<1>>, next |-> 2, phase |-> "idle",
                   left |-> 0, right |-> 0, err |-> "none", calls |-> 0]

\* between two calls of add_more_springs the player moves and the window is resized
RegMove ==
    /\ registry.phase = "idle"
    /\ registry.err = "none"
    /\ \E x \in PlayerXs : playerX' = x
    /\ \E w \in ScreenWidths : screenW' = w
    /\ UNCHANGED <<springs, oceanErr, lastOp, pre, nSplash, dropped>>
    /\ UNCHANGED <<flockVars, cameraVars, springVars, levelVars, extraVars>>

\* add_more_springs starts: both extremes are read
RegBegin ==
    /\ registry.phase = "idle"
    /\ registry.err = "none"
    /\ registry.calls < MaxRegCalls
    /\ screenW > 0
    /\ registry' = IF DOMAIN registry.springs = {}
                   THEN [registry EXCEPT !.err = "ValueError"]
                   ELSE [registry EXCEPT !.phase = "add-left", !.calls = @ + 1,
                                         !.left = SetMin(DOMAIN registry.springs),
                                         !.right = SetMax(DOMAIN registry.springs)]
    /\ UNCHANGED <<oceanVars, flockVars, cameraVars, springVars, levelVars, level, player>>

\* one evaluation of the first while loop: add a spring to the left, or go on
RegAddLeft ==
    /\ registry.phase = "add-left"
    /\ registry' = IF registry.left > playerX - screenW
                   THEN [RegAddSpring(registry, registry.left - wave_interval) EXCEPT
                            !.left = @ - wave_interval]
                   ELSE [registry EXCEPT !.phase = "remove-left"]
    /\ UNCHANGED <<oceanVars, flockVars, cameraVars, springVars, levelVars, level, player>>

\* one evaluation of the second while loop: remove the leftmost spring, or go on
RegRemoveLeft ==
    /\ registry.phase = "remove-left"
    /\ registry' = IF registry.left < playerX - screenW
                   THEN IF registry.left \in DOMAIN registry.springs
                        THEN [RegRemoveSpring(registry, registry.left) EXCEPT
                                 !.left = @ + wave_interval]
                        ELSE [registry EXCEPT !.err = "KeyError", !.phase = "idle"]
                   ELSE [registry EXCEPT !.phase = "add-right"]
    /\ UNCHANGED <<oceanVars, flockVars, cameraVars, springVars, levelVars, level, player>>

\* one evaluation of the third while loop: add a spring to the right, or go on
RegAddRight ==
    /\ registry.phase = "add-right"
    /\ registry' = IF registry.right < playerX + screenW
                   THEN [RegAddSpring(registry, registry.right + wave_interval) EXCEPT
                            !.right = @ + wave_interval]
                   ELSE [registry EXCEPT !.phase = "remove-right"]
    /\ UNCHANGED <<oceanVars, flockVars, cameraVars, springVars, levelVars, level, player>>

\* one evaluation of the fourth while loop: remove the rightmost spring, or return
RegRemoveRight ==
    /\ registry.phase = "remove-right"
    /\ registry' = IF registry.right > playerX + screenW
                   THEN IF registry.right \in DOMAIN registry.springs
                        THEN [RegRemoveSpring(registry, registry.right) EXCEPT
                                 !.right = @ - wave_interval]
                        ELSE [registry EXCEPT !.err = "KeyError", !.phase = "idle"]
                   ELSE [registry EXCEPT !.phase = "idle"]
    /\ UNCHANGED <<oceanVars, flockVars, cameraVars, springVars, levelVars, level, player>>

NextRegistry ==
    RegMove \/ RegBegin \/ RegAddLeft \/ RegRemoveLeft \/ RegAddRight \/ RegRemoveRight

SpecRegistry == InitRegistry /\ [][NextRegistry]_vars

----------------------------------------------------------------------------
(* Claims about the springs as sprites, checked under SpecRegistry *)

\* C30: after every add_spring and remove_spring, and so after every
\* add_more_springs, the WaterSprings of the update group are exactly the
\* values of Ocean.springs: a removed spring is no longer in the group and
\* every live spring is in it exactly once, under one key.
C30_GroupMatchesSprings ==
    /\ Range(registry.group) = Values(registry.springs)
    /\ Len(registry.group) = Cardinality(Range(registry.group))
    /\ Cardinality(Values(registry.springs)) = Cardinality(DOMAIN registry.springs)

\* a call of add_more_springs has returned after killing springs and making
\* others, one of them at a position that held another spring before
C30_Witness ==
    /\ registry.phase = "idle"
    /\ registry.err = "none"
    /\ registry.calls >= 2
    /\ Len(registry.group) >= 3
    /\ Len(registry.group) < registry.next - 1
    /\ 0 \in DOMAIN registry.springs
    /\ registry.springs[0] # 1

----------------------------------------------------------------------------
(* Player: the mouse thrust, gravity and drag *)

\* Player.speed = 1.5, gravity 0.7, drag 0.95 and the velocity 0.1 below
\* which the player stops, in units of 1 / FP
PlayerSpeed == 1800
Gravity == 840
Drag == 1140
Stillness == 120

\* the bounds of time_since_in_air and the wait before the mouse acts
MaxAir == 1000
MinAir == 5

PlayerThrustNoWait(p, m) ==
    /\ m.pressed
    /\ p.y >= 0
    /\ m.dv[1] * m.dv[1] + m.dv[2] * m.dv[2] > 5 * 5

\* velocity += mvm happens: the button is down, the centre is not above the
\* surface, time_since_in_air >= 5, and the mouse is more than 5 away
PlayerThrust(p, m) ==
    /\ m.pressed
    /\ p.y >= 0
    /\ p.time_since_in_air >= MinAir
    /\ m.dv[1] * m.dv[1] + m.dv[2] * m.dv[2] > 5 * 5

\* mvm = dv.copy(); mvm.scale_to_length(self.speed)
ScaleToLength(dv, length) ==
    << TDiv(dv[1] * length, Magnitude(dv[1] * dv[1] + dv[2] * dv[2])),
       TDiv(dv[2] * length, Magnitude(dv[1] * dv[1] + dv[2] * dv[2])) >>

\* Player.update with the mouse m (button state and offset dv from the
\* player's centre); positions and velocities in units of 1 / FP.  The
\* record also keeps what the update read: the button, the centre y, the
\* velocity and time_since_in_air at its start, whether it added the thrust,
\* the speed of the splash it asked the ocean for, and the number of updates
\* since one that found the player above the surface.
PlayerStep(p, m) ==
    LET thrust == PlayerThrust(p, m)
        mvm == IF thrust THEN ScaleToLength(m.dv, PlayerSpeed) ELSE <<0, 0>>
        v1 == <<p.vx + mvm[1], p.vy + mvm[2]>>
        now_in_water == ~(p.y < 0)
        t1 == IF now_in_water THEN p.time_since_in_air ELSE 0
        t2 == IF t1 + 1 > MaxAir THEN MaxAir ELSE t1 + 1
        a == Min2(Abs(v1[2]), 30 * FP) \div 30
        sp == IF now_in_water /\ ~p.in_water THEN lerp(0, 10 * FP, a)
              ELSE IF ~now_in_water /\ p.in_water THEN lerp(0, -10 * FP, a)
              ELSE "none"
        v2 == IF now_in_water THEN <<FMul(v1[1], Drag), FMul(v1[2], Drag)>>
              ELSE <<v1[1], v1[2] + Gravity>>
        v3 == IF v2[1] * v2[1] + v2[2] * v2[2] < Stillness * Stillness THEN <<0, 0>> ELSE v2
        x1 == IF p.x + v3[1] - PlayerHalf[1] * FP < WORLD_LEFT * FP
              THEN (WORLD_LEFT + PlayerHalf[1]) * FP ELSE p.x + v3[1]
        x2 == IF x1 + PlayerHalf[1] * FP > WORLD_RIGHT * FP
              THEN (WORLD_RIGHT - PlayerHalf[1]) * FP ELSE x1
        y1 == IF p.y + v3[2] + PlayerHalf[2] * FP > WORLD_BOTTOM * FP
              THEN (WORLD_BOTTOM - PlayerHalf[2]) * FP ELSE p.y + v3[2]
    IN  [x |-> x2, y |-> y1, vx |-> v3[1], vy |-> v3[2], time_since_in_air |-> t2,
         in_water |-> now_in_water, splash |-> sp, thrust |-> thrust, pressed |-> m.pressed,
         was |-> p.time_since_in_air, y0 |-> p.y, vx0 |-> p.vx, vy0 |-> p.vy,
         since |-> IF now_in_water THEN Min2(p.since + 1, MinAir + 1) ELSE 0,
         thrusts |-> IF thrust THEN Min2(p.thrusts + 1, 2) ELSE p.thrusts,
         n |-> p.n]

----------------------------------------------------------------------------
(* Inputs and bounds of the player specification *)

\* the mouse: released; held above, below and beside the player; held on it
MouseInputs ==
    { [pressed |-> FALSE, dv |-> <<0, -100>>],
      [pressed |-> TRUE, dv |-> <<0, -100>>],
      [pressed |-> TRUE, dv |-> <<30, 40>>],
      [pressed |-> TRUE, dv |-> <<3, 4>>] }

\* frames in which the mouse is free; after them it stays released
MaxPlayerFrames == 66

\* Player.__init__ as FishLevel.__init__ calls it: Player(manager, (20, -20)),
\* the rectangle standing on the water line at the left wall
InitPlayer ==
    /\ OceanIdle
    /\ FlockIdle
    /\ CameraIdle
    /\ SpringIdle
    /\ LevelIdle
    /\ RegistryIdle
    /\ GameIdle
    /\ player = [x |-> (WORLD_LEFT + PlayerHalf[1]) * FP, y |-> (-PlayerHalf[2]) * FP,
                 vx |-> 20 * FP, vy |-> (-20) * FP,
                 time_since_in_air |-> 100, in_water |-> FALSE, splash |-> "none",
                 thrust |-> FALSE, pressed |-> FALSE, was |-> 100, y0 |-> (-PlayerHalf[2]) * FP,
                 vx0 |-> 20 * FP, vy0 |-> (-20) * FP, since |-> 0, thrusts |-> 0, n |-> 0]

\* one Player.update, the mouse free
PlayerFrame ==
    /\ player.n < MaxPlayerFrames
    /\ \E m \in MouseInputs : player' = [PlayerStep(player, m) EXCEPT !.n = player.n + 1]
    /\ UNCHANGED <<oceanVars, flockVars, cameraVars, springVars, levelVars, registry, level>>

\* one Player.update, the mouse released
PlayerDrift ==
    /\ player.n >= MaxPlayerFrames
    /\ player' = PlayerStep(player, [pressed |-> FALSE, dv |-> <<0, -100>>])
    /\ UNCHANGED <<oceanVars, flockVars, cameraVars, springVars, levelVars, registry, level>>

NextPlayer == PlayerFrame \/ PlayerDrift

SpecPlayer == InitPlayer /\ [][NextPlayer]_vars

----------------------------------------------------------------------------
(* Claims about the player, checked under SpecPlayer *)

\* C29: after every Player.update time_since_in_air is between 1 and 1000;
\* the mouse thrust is added to the velocity only in an update that finds the
\* button pressed, the centre y >= 0 and time_since_in_air >= 5, and without
\* it the velocity only takes gravity or drag; so no thrust is added in the
\* first 4 updates after one that found the player above the surface.
C29_AirTimeGate ==
    player.n >= 1 =>
        /\ 1 <= player.time_since_in_air
        /\ player.time_since_in_air <= 1000
        /\ player.thrust => (player.pressed /\ player.y0 >= 0 /\ player.was >= 5)
        /\ player.since \in 0..4 => ~player.thrust
        /\ ~player.thrust =>
              LET v == IF player.y0 >= 0
                       THEN <<FMul(player.vx0, Drag), FMul(player.vy0, Drag)>>
                       ELSE <<player.vx0, player.vy0 + Gravity>>
              IN  <<player.vx, player.vy>> \in {v, <<0, 0>>}

\* the player has come down into the water, has been pushed by the mouse in
\* two updates and has then stayed in the water until time_since_in_air
\* stopped at 1000
C29_Witness ==
    /\ player.time_since_in_air = 1000
    /\ player.was = 1000
    /\ player.thrusts >= 2
    /\ player.in_water

----------------------------------------------------------------------------
(* The game loop: overlays, the timer, the win and the restart *)

\* if self.screen_override: ...; return (FishLevel.update, on_key_down)
OverlayBlocksPauseOnly(l) == l.override = "pause"
OverlayBlocks(l) == l.override # "none"

\* the cards of the update group (groups["card"] holds the same sprites)
CardsOf(g) == SelectSeq(g, LAMBDA m : m.kind = "card")

\* Card.kill for the cards of the set hit
KillCards(g, hit) == SelectSeq(g, LAMBDA m : ~(m.kind = "card" /\ m.key \in hit))

\* FishLevel.update: if not self.finished and len(groups["card"]) == 0
WinCheck(l, g) ==
    IF ~l.finished /\ Len(CardsOf(g)) = 0
    THEN [l EXCEPT !.finished = TRUE, !.override = "win", !.wins = @ + 1]
    ELSE l

\* Timer.update, d seconds after the clock was last read
TimerUpdate(l, d) ==
    LET now_time == l.now + d
        dt == now_time - l.last_time
    IN  [l EXCEPT !.now = now_time, !.last_time = now_time,
                  !.time = IF l.override = "none" THEN @ + dt ELSE @]

\* BlockingOverlay.on_key_down (pass), PauseOverlay.on_key_down
OverlayOnKeyDownAnyEscape(l, key) ==
    IF key = "escape" THEN [l EXCEPT !.override = "none"] ELSE l
OverlayOnKeyDown(l, key) ==
    IF l.override = "pause" /\ key = "escape" THEN [l EXCEPT !.override = "none"] ELSE l

\* the cheat of FishLevel.on_key_down: every card but the last of the group
\* is killed
CheatCards(g) ==
    LET c == CardsOf(g)
    IN  IF Len(c) <= 1 THEN {} ELSE { c[i].key : i \in 1..(Len(c) - 1) }

\* seconds between two readings of the clock
Elapsed == {1, 2}

\* the screen of the game
GameWidth == 40

\* the player's velocity in a frame of the game
GameVelocities == { <<8, 30>>, <<-8, -30>> }

\* the clock time after which Game.run makes no further frame
MaxClock == 6

\* pygame.K_ESCAPE, K_l, and any other key (K_F3 switches the debug drawing)
GameKeys == {"escape", "l", "other"}

\* where a click lands on the screen
Spots == {"play", "quit", "elsewhere"}

\* BoidManager.create_boids, as in the flock
GameBoids ==
    <<NewBoid(<<50, 200>>, <<10, 0>>), NewBoid(<<70, 220>>, <<-10, 0>>),
      NewBoid(<<60, 210>>, <<10, 0>>)>>

\* the cards the player's nose touches in a frame (add_cards places the
\* cards at random): none, the first of the group, or all that are left
CardHits(g) ==
    LET c == CardsOf(g)
    IN  IF c = << >> THEN { {} }
        ELSE { {}, {c[1].key}, { c[i].key : i \in 1..Len(c) } }

\* FishLevel.__init__ with a timer started at the clock time now; restarts
\* counts the calls of FishLevel.restart, wins the WinOverlays made by this
\* level, last is the branch the last FishLevel.update of this level took
NewLevel(skip_intro, now, restarts, running) ==
    [override |-> IF skip_intro THEN "none" ELSE "start", finished |-> FALSE,
     time |-> 0, last_time |-> now, now |-> now, wins |-> 0, restarts |-> restarts,
     running |-> running, ended |-> FALSE, last |-> "init"]

\* Game.__init__: FishLevel(self), running = True
InitGame ==
    /\ SpringIdle
    /\ RegistryIdle
    /\ PlayerIdle
    /\ level = NewLevel(FALSE, 0, 0, TRUE)
    /\ screenW = GameWidth
    /\ springs = InitSprings(GameWidth, FALSE)
    /\ playerX = WORLD_LEFT + PlayerHalf[1]
    /\ playerY = -PlayerHalf[2]
    /\ inWater = FALSE
    /\ updateGroup = InitGroup(springs)
    /\ trace = << >>
    /\ ticks = 0
    /\ oceanErr = "none"
    /\ lastOp = NoOp
    /\ pre = springs
    /\ nSplash = 0
    /\ dropped = {}
    /\ boids = GameBoids
    /\ twin = GameBoids
    /\ playerPos = <<playerX, playerY>>
    /\ playerMode = "away"
    /\ frame = 0
    /\ camTarget = <<playerX, playerY>>
    /\ camPos = <<playerX * CamUnit, playerY * CamUnit>>
    /\ camScreen = <<GameWidth, GameWidth>>
    /\ camSteps = 0
    /\ camLast = [op |-> "init", before |-> camPos, target |-> camTarget]
    /\ conv = [op |-> "none", p |-> <<0, 0>>, image |-> <<0, 0>>, back |-> <<0, 0>>]

\* FishLevel.restart: self.__init__(self.game, True)
Restarted ==
    /\ level' = NewLevel(TRUE, level.now, level.restarts + 1, level.running)
    /\ springs' = InitSprings(GameWidth, FALSE)
    /\ playerX' = WORLD_LEFT + PlayerHalf[1]
    /\ playerY' = -PlayerHalf[2]
    /\ inWater' = FALSE
    /\ updateGroup' = InitGroup(InitSprings(GameWidth, FALSE))
    /\ trace' = << >>
    /\ ticks' = 0
    /\ lastOp' = NoOp
    /\ pre' = InitSprings(GameWidth, FALSE)
    /\ boids' = GameBoids
    /\ twin' = GameBoids
    /\ playerPos' = <<WORLD_LEFT + PlayerHalf[1], -PlayerHalf[2]>>
    /\ frame' = 0
    /\ camTarget' = <<WORLD_LEFT + PlayerHalf[1], -PlayerHalf[2]>>
    /\ camPos' = <<(WORLD_LEFT + PlayerHalf[1]) * CamUnit, (-PlayerHalf[2]) * CamUnit>>
    /\ camSteps' = 0
    /\ camLast' = [op |-> "init", before |-> camPos', target |-> camTarget']
    /\ UNCHANGED <<screenW, oceanErr, nSplash, dropped, playerMode, camScreen, conv>>

\* the state the update group steps: player, camera, springs, boids, cards
simVars == <<oceanVars, flockVars, cameraVars, levelVars>>

\* FishLevel.update in Game.run, d seconds after the last one; the loop
\* ends after the update if running is False
GameUpdate ==
    /\ ~level.ended
    /\ level.now < MaxClock
    /\ oceanErr = "none"
    /\ IF OverlayBlocks(level)
       THEN /\ \E d \in Elapsed :
                  level' = [TimerUpdate(level, d) EXCEPT
                               !.ended = ~level.running, !.last = "overlay.update"]
            /\ UNCHANGED simVars
       ELSE /\ ticks < MaxTicks
            /\ \E v \in GameVelocities :
                  \E lv \in { GroupUpdate(Running(springs, updateGroup, << >>, "none",
                                                  playerX, playerY, inWater, ticks + 1),
                                          updateGroup, v, screenW) } :
                  \E b \in { BoidManagerUpdate(boids, <<lv.x, lv.y>>) } :
                  \E d \in Elapsed, hit \in CardHits(updateGroup) :
                      /\ level' = [TimerUpdate(WinCheck(level, updateGroup), d) EXCEPT
                                      !.ended = ~level.running, !.last = "group.update"]
                      /\ springs' = lv.springs
                      /\ updateGroup' = KillCards(lv.group, hit)
                      /\ trace' = lv.trace
                      /\ oceanErr' = lv.err
                      /\ playerX' = lv.x
                      /\ playerY' = lv.y
                      /\ inWater' = lv.inWater
                      /\ camTarget' = <<lv.x, lv.y>>
                      /\ camPos' = camera_update(camPos, <<lv.x, lv.y>>)
                      /\ camLast' = [op |-> "update", before |-> camPos,
                                     target |-> <<lv.x, lv.y>>]
                      /\ playerPos' = <<lv.x, lv.y>>
                      /\ boids' = b
                      /\ twin' = b
            /\ camSteps' = camSteps + 1
            /\ frame' = frame + 1
            /\ ticks' = ticks + 1
            /\ pre' = springs
            /\ lastOp' = LastAdd(trace)
            /\ UNCHANGED <<screenW, nSplash, dropped, playerMode, camScreen, conv>>
    /\ UNCHANGED <<springVars, registry, player>>

\* pygame.KEYDOWN: FishLevel.on_key_down
KeyDown ==
    /\ ~level.ended
    /\ \E key \in GameKeys :
          IF OverlayBlocks(level)
          THEN /\ level' = OverlayOnKeyDown(level, key)
               /\ UNCHANGED updateGroup
          ELSE /\ level' = [level EXCEPT !.override = IF key = "escape" THEN "pause" ELSE @]
               /\ updateGroup' = IF key = "l" THEN KillCards(updateGroup, CheatCards(updateGroup))
                                 ELSE updateGroup
    /\ UNCHANGED <<oceanVars, flockVars, cameraVars, trace, playerY, inWater, ticks>>
    /\ UNCHANGED <<springVars, registry, player>>

\* pygame.MOUSEBUTTONDOWN: FishLevel.on_mouse_down on an overlay that a
\* click does not restart
MouseDown ==
    /\ ~level.ended
    /\ \E spot \in Spots :
          /\ ~(level.override = "win" /\ spot = "play")
          /\ level' = [level EXCEPT
                          !.override = IF @ = "start" THEN "none" ELSE @,
                          !.running = IF level.override = "win" /\ spot = "quit"
                                      THEN FALSE ELSE @]
    /\ UNCHANGED simVars
    /\ UNCHANGED <<springVars, registry, player>>

\* pygame.MOUSEBUTTONDOWN on the play button of the WinOverlay:
\* click_func = level.restart
PlayAgain ==
    /\ ~level.ended
    /\ level.override = "win"
    /\ Restarted
    /\ UNCHANGED <<springVars, registry, player>>

\* pygame.QUIT
Quit ==
    /\ ~level.ended
    /\ level' = [level EXCEPT !.running = FALSE]
    /\ UNCHANGED simVars
    /\ UNCHANGED <<springVars, registry, player>>

NextGame == GameUpdate \/ KeyDown \/ MouseDown \/ PlayAgain \/ Quit

SpecGame == InitGame /\ [][NextGame]_vars

----------------------------------------------------------------------------
(* Claims about the overlays, checked under SpecGame *)

\* C27: a FishLevel.update that starts while screen_override is set (start,
\* pause or win overlay) leaves the player, the camera, the springs with
\* their keys, extensions and velocities, the boids and the update group with
\* its cards unchanged, and the timer's time is what it was; the timer's
\* time is also what it was after the update that makes the WinOverlay.
C27_OverlayFreezes ==
    [][ /\ (level'.now # level.now /\ level.override # "none") =>
              /\ UNCHANGED simVars
              /\ level'.time = level.time
        /\ (level'.now # level.now /\ level'.override # "none") =>
              level'.time = level.time ]_vars

\* the game has run, has been paused, and a FishLevel.update under the pause
\* let the clock go on while the timer stood still
C27_Witness ==
    /\ level.override = "pause"
    /\ level.last = "overlay.update"
    /\ ticks >= 1
    /\ level.time > 0
    /\ level.now > level.time

\* C28: a level makes at most one WinOverlay before it is restarted; it is
\* made only by, and by every, FishLevel.update that starts with no overlay,
\* with an empty card group and with no WinOverlay made yet; finished is true
\* from then until the restart; and once the WinOverlay is the overlay, it
\* stays the overlay in every step but a restart (a quit ends the loop with
\* the overlay still there).
C28_WinOnce ==
    [][ /\ level'.wins <= 1
        /\ (level'.wins # level.wins /\ level'.restarts = level.restarts) =>
              /\ level'.now # level.now
              /\ level.override = "none"
              /\ CardsOf(updateGroup) = << >>
              /\ level'.override = "win"
        /\ (level'.now # level.now /\ level.override = "none"
                /\ CardsOf(updateGroup) = << >> /\ level.wins = 0) =>
              /\ level'.wins = 1
              /\ level'.override = "win"
        /\ (level'.wins = 1) => level'.finished
        /\ (level.finished /\ level'.restarts = level.restarts) => level'.finished
        /\ (level.override = "win" /\ level'.override # "win") =>
              /\ level'.restarts = level.restarts + 1
              /\ level'.wins = 0
              /\ ~level'.finished ]_vars

\* the level was won, restarted with the play button and won again
C28_Witness ==
    /\ level.restarts = 1
    /\ level.wins = 1
    /\ level.override = "win"
    /\ level.finished

====
